---- MODULE Spec2Model ----
(***************************************************************************)
(* kubectl-find: the filter-and-act engine.                                *)
(*                                                                         *)
(* Two resource handlers (PodHandler for core/v1 pods, UniversalHandler    *)
(* for every other kind) fetch candidates, filter them with a conjunction  *)
(* of predicates and run one action (list, delete, patch, exec) over the   *)
(* surviving set, with a confirmation prompt on standard error/input.      *)
(*                                                                         *)
(* Modelling conventions                                                   *)
(*  - a string the code inspects character by character (the confirmation  *)
(*    answer) is a sequence of one-character strings;                      *)
(*  - a compiled regular expression is the set of strings it matches (the  *)
(*    pattern's language restricted to the strings of the model); the      *)
(*    regexp engine itself is a library outside the repository;            *)
(*  - a duration and an age are integers (one unit = one tick of the       *)
(*    clock); time.Since(creationTimestamp) is the age of the object;      *)
(*  - the in-memory streams of a run accept every write.                   *)
(***************************************************************************)
EXTENDS Integers, Sequences, FiniteSets, TLC

(***************************************************************************)
(* Bounds of the model.                                                    *)
(***************************************************************************)
\* longest standard-input content explored for the confirmation prompt
MaxInputLen == 3
\* largest number of objects stored in the cluster
MaxItems == 3
\* ages and durations range over -1 .. MaxAgeTicks
MaxAgeTicks == 2
\* largest number of container statuses of a pod
MaxContainers == 2
\* largest restart count of one container
MaxRestartCount == 1
\* largest number of items the server puts in one page of a list
MaxPageSize == 2
\* largest number of values a jq query emits for one document
MaxEmitted == 2
\* largest number of flags of a command line that differ from their defaults
MaxFlags == 3
\* largest number of node-label columns of a table
MaxNodeLabels == 2
\* largest number of label or annotation keys requested as columns
MaxKeys == 2

(***************************************************************************)
(* Strings, as sequences of characters.                                    *)
(***************************************************************************)
IsSpace(c) == c \in {" ", "\n", "\t", "\r"}

\* strings.ToLower on one character of the model's alphabet
LowerChar(c) ==
  CASE c = "Y" -> "y"
    [] c = "E" -> "e"
    [] c = "S" -> "s"
    [] c = "N" -> "n"
    [] OTHER -> c

ToLower(s) == [i \in 1..Len(s) |-> LowerChar(s[i])]

RECURSIVE TrimLeft(_)
TrimLeft(s) ==
  IF s = <<>> THEN <<>>
  ELSE IF IsSpace(Head(s)) THEN TrimLeft(Tail(s)) ELSE s

RECURSIVE TrimRight(_)
TrimRight(s) ==
  IF s = <<>> THEN <<>>
  ELSE IF IsSpace(s[Len(s)]) THEN TrimRight(SubSeq(s, 1, Len(s) - 1)) ELSE s

\* variant: only leading white space is removed
TrimSpace_LeadingOnly(s) == TrimLeft(s)

TrimSpace(s) == TrimRight(TrimLeft(s))

\* position of the first delimiter in s, 0 when there is none
RECURSIVE IndexFrom(_, _, _)
IndexFrom(s, delim, i) ==
  IF i > Len(s) THEN 0
  ELSE IF s[i] = delim THEN i ELSE IndexFrom(s, delim, i + 1)

\* bufio.Reader.ReadString(delim): the data up to and including the first
\* delimiter; when the input ends first, the data read so far and an error.
ReadString(in, delim) ==
  LET k == IndexFrom(in, delim, 1) IN
  IF k = 0
    THEN [data |-> in, err |-> TRUE, rest |-> <<>>]
    ELSE [data |-> SubSeq(in, 1, k), err |-> FALSE, rest |-> SubSeq(in, k + 1, Len(in))]

Prompt == "Are you sure you want to continue? [y/N]: "

\* variant: the answer is not looked at
AskForConfirmation_AnyAnswer(in) == TRUE

\* the answer AskForConfirmation computes from the content of standard input
\* (the read error is discarded, the data read is kept)
AskForConfirmation(in) ==
  LET input == TrimSpace(ToLower(ReadString(in, "\n").data)) IN
  input = <<"y">> \/ input = <<"y", "e", "s">>

(***************************************************************************)
(* Regular expressions and the jq evaluator (libraries).                   *)
(***************************************************************************)
\* a nil *regexp.Regexp
NoRegex == [set |-> FALSE, lang |-> {}]

Regex(lang) == [set |-> TRUE, lang |-> lang]

\* (*regexp.Regexp).MatchString
MatchString(re, s) == s \in re.lang

\* a nil *gojq.Query
NoQuery == [set |-> FALSE]

TheQuery == [set |-> TRUE]

\* PrepareQuery's wrapper "[.] | .[] | select ( expr ) | length > 0" over the
\* values the user's expression emits for a document: select keeps the
\* document once per value that is neither false nor null, the length of the
\* (non-empty) document is positive, and an evaluation error ends the stream
PreparedEmits_NoSelect(vals) == vals

RECURSIVE PreparedEmits(_)
PreparedEmits(vals) ==
  IF vals = <<>> THEN <<>>
  ELSE IF Head(vals) = "error" THEN <<"error">>
  ELSE IF Head(vals) \in {"false", "null"} THEN PreparedEmits(Tail(vals))
  ELSE <<"true">> \o PreparedEmits(Tail(vals))

\* gojq's iterator over a document: the values the run's prepared query emits
\* for it, doc.emits being what the user's expression emits
Run(query, doc) == PreparedEmits(doc.emits)

\* variant: an evaluation error is taken for one more non-nil value
MatchesWithGoJQ_ErrorIsValue(vals) ==
  [matches |-> \E i \in DOMAIN vals : vals[i] # "null", err |-> FALSE]

\* MatchesWithGoJQ: first truthy value wins, an emitted error ends the run
RECURSIVE MatchesWithGoJQ(_)
MatchesWithGoJQ(vals) ==
  IF vals = <<>> THEN [matches |-> FALSE, err |-> FALSE]
  ELSE IF Head(vals) = "error" THEN [matches |-> FALSE, err |-> TRUE]
  ELSE IF Head(vals) = "true" THEN [matches |-> TRUE, err |-> FALSE]
  ELSE IF Head(vals) # "null" THEN [matches |-> TRUE, err |-> FALSE]
  ELSE MatchesWithGoJQ(Tail(vals))

(***************************************************************************)
(* Data model: resources, actions, documents, pods, options.               *)
(***************************************************************************)
ActionList == 0
ActionDelete == 1
ActionPatch == 2
ActionExec == 3

\* the resolved kinds of the model: pods, a namespaced kind, a cluster kind
PodType == [PluralName |-> "pods", SingularName |-> "pod", IsNamespaced |-> TRUE]

ConfigMapType ==
  [PluralName |-> "configmaps", SingularName |-> "configmap", IsNamespaced |-> TRUE]

NamespaceType ==
  [PluralName |-> "namespaces", SingularName |-> "namespace", IsNamespaced |-> FALSE]

\* an object of the cluster as the API serves it (unstructured.Unstructured)
Doc(name, ns, age, phase, node, nominated, restarts, emits) ==
  [metadata |-> [name |-> name, namespace |-> ns, age |-> age, generation |-> 0,
                 labels |-> {}],
   spec     |-> [nodeName |-> node, initContainers |-> <<>>, containers |-> <<>>],
   status   |-> [phase |-> phase, nominatedNodeName |-> nominated,
                 restartCounts |-> restarts],
   emits    |-> emits]

\* the same object with the images of its init and main containers
WithImages(doc, init, main) ==
  [doc EXCEPT !.spec.initContainers = init, !.spec.containers = main]

GetName(doc) == doc.metadata.name

GetNamespace(doc) == doc.metadata.namespace

\* time.Since(resource.GetCreationTimestamp().Time)
SinceCreation(doc) == doc.metadata.age

\* the typed v1.Pod the clientset decodes from a served object
ToPod(doc) ==
  [Name |-> doc.metadata.name, Namespace |-> doc.metadata.namespace,
   Age |-> doc.metadata.age, Generation |-> doc.metadata.generation,
   Labels |-> doc.metadata.labels,
   NodeName |-> doc.spec.nodeName, InitContainers |-> doc.spec.initContainers,
   Containers |-> doc.spec.containers, Phase |-> doc.status.phase,
   NominatedNodeName |-> doc.status.nominatedNodeName,
   RestartCounts |-> doc.status.restartCounts, Emits |-> doc.emits]

\* runtime.DefaultUnstructuredConverter.ToUnstructured(pod)
ToUnstructured(pod) ==
  [metadata |-> [name |-> pod.Name, namespace |-> pod.Namespace, age |-> pod.Age,
                 generation |-> pod.Generation, labels |-> pod.Labels],
   spec     |-> [nodeName |-> pod.NodeName, initContainers |-> pod.InitContainers,
                 containers |-> pod.Containers],
   status   |-> [phase |-> pod.Phase, nominatedNodeName |-> pod.NominatedNodeName,
                 restartCounts |-> pod.RestartCounts],
   emits    |-> pod.Emits]

\* ActionOptions with every optional predicate absent
NoFilter(ns, action) ==
  [Namespace |-> ns, LabelSelector |-> "", Action |-> action,
   NameRegex |-> NoRegex, MinAge |-> 0, MaxAge |-> 0, SkipConfirm |-> FALSE,
   JQQuery |-> NoQuery, PodStatus |-> "", Patch |-> "", Exec |-> "",
   NodeNameRegex |-> NoRegex, Restarted |-> FALSE, ImageRegex |-> NoRegex]

RECURSIVE SumSeq(_)
SumSeq(s) == IF s = <<>> THEN 0 ELSE Head(s) + SumSeq(Tail(s))

(***************************************************************************)
(* The matchers.                                                           *)
(***************************************************************************)
\* variant: the max-age bound is applied even when it is unset
resourceMatches_UnguardedMaxAge(resource, options) ==
  IF options.NameRegex.set /\ ~MatchString(options.NameRegex, GetName(resource))
    THEN FALSE
  ELSE IF \/ options.MinAge > 0 /\ SinceCreation(resource) < options.MinAge
          \/ SinceCreation(resource) > options.MaxAge
    THEN FALSE
  ELSE IF options.JQQuery.set
    THEN LET r == MatchesWithGoJQ(Run(options.JQQuery, resource)) IN
         ~(r.err \/ ~r.matches)
  ELSE TRUE

\* UniversalHandler.resourceMatches
resourceMatches(resource, options) ==
  IF options.NameRegex.set /\ ~MatchString(options.NameRegex, GetName(resource))
    THEN FALSE
  ELSE IF (options.MinAge > 0 \/ options.MaxAge > 0)
          /\ (\/ options.MinAge > 0 /\ SinceCreation(resource) < options.MinAge
              \/ options.MaxAge > 0 /\ SinceCreation(resource) > options.MaxAge)
    THEN FALSE
  ELSE IF options.JQQuery.set
    THEN LET r == MatchesWithGoJQ(Run(options.JQQuery, resource)) IN
         ~(r.err \/ ~r.matches)
  ELSE TRUE

\* variant: no fall-back to the nominated node
podNodeName_ScheduledOnly(pod) == pod.NodeName

\* the node name the node predicate of the pod matcher looks at
podNodeName(pod) ==
  IF pod.NodeName = "" THEN pod.NominatedNodeName ELSE pod.NodeName

\* variant: the two age comparisons are swapped
getMatcher_SwappedAge(opts, pod) ==
  IF opts.NameRegex.set /\ ~MatchString(opts.NameRegex, pod.Name) THEN FALSE
  ELSE IF opts.MinAge # 0 /\ pod.Age > opts.MinAge THEN FALSE
  ELSE IF opts.MaxAge # 0 /\ pod.Age < opts.MaxAge THEN FALSE
  ELSE IF opts.PodStatus # "" /\ pod.Phase # opts.PodStatus THEN FALSE
  ELSE IF opts.NodeNameRegex.set
          /\ (podNodeName(pod) = "" \/ ~MatchString(opts.NodeNameRegex, podNodeName(pod)))
    THEN FALSE
  ELSE TRUE

\* the closure PodHandler.getMatcher returns, applied to one pod
getMatcher(opts, pod) ==
  IF opts.NameRegex.set /\ ~MatchString(opts.NameRegex, pod.Name) THEN FALSE
  ELSE IF opts.MinAge # 0 /\ pod.Age < opts.MinAge THEN FALSE
  ELSE IF opts.MaxAge # 0 /\ pod.Age > opts.MaxAge THEN FALSE
  ELSE IF opts.PodStatus # "" /\ pod.Phase # opts.PodStatus THEN FALSE
  ELSE IF opts.NodeNameRegex.set
          /\ (podNodeName(pod) = "" \/ ~MatchString(opts.NodeNameRegex, podNodeName(pod)))
    THEN FALSE
  ELSE TRUE

(***************************************************************************)
(* State.                                                                  *)
(***************************************************************************)
VARIABLES
  cfg,       \* the run: handler variant, resolved kind, ActionOptions, initial cluster
  remote,    \* the objects of the kind currently stored in the cluster, in list order
  stdin,     \* the unread content of standard input
  pc,        \* position of HandleAction
  list,      \* the candidates fetched so far
  token,     \* continuation token of the next list request (0 is the empty token)
  matched,   \* matchedItems / matchedPods
  idx,       \* index of the next matched item of the per-item loop
  out,       \* lines written to standard output
  errOut,    \* lines written to standard error
  requests,  \* requests sent to the API server and exec streams asked for, in order
  printed,   \* arguments of the calls of Printer.PrintObjects, in order
  asked,     \* the confirmation read: whether it happened, what was read, the answer
  result,    \* what HandleAction returned
  mc,        \* matcher bench: one candidate, one ActionOptions, the verdict
  cli,       \* the command: FindOptions, position of RunE, error, exit code
  nodes      \* the label columns of a table: keys, caches, node reads, cells

vars == <<cfg, remote, stdin, pc, list, token, matched, idx, out, errOut,
          requests, printed, asked, result, mc, cli, nodes>>

(***************************************************************************)
(* Inputs.                                                                 *)
(***************************************************************************)
Names == {"a", "b"}

Namespaces == {"default", "kube-system"}

NodeNames == {"n1", "n2"}

\* sequences without repetition of at most n elements of S
DistinctSeqs(S, n) ==
  {s \in UNION {[1..k -> S] : k \in 0..n} :
     \A i, j \in DOMAIN s : i # j => s[i] # s[j]}

\* an object of the handler runs: only its identity varies
PlainDoc(key) == Doc(key[1], key[2], 1, "Running", "n1", "", <<0>>, <<>>)

\* the clusters of a kind: stored objects have distinct (name, namespace)
Clusters(resource) ==
  LET keys == IF resource.IsNamespaced THEN Names \X Namespaces ELSE Names \X {""}
  IN {[i \in DOMAIN s |-> PlainDoc(s[i])] : s \in DistinctSeqs(keys, MaxItems)}

Handlers ==
  {[variant |-> "pod", resource |-> PodType],
   [variant |-> "universal", resource |-> ConfigMapType],
   [variant |-> "universal", resource |-> NamespaceType]}

\* the action of a run with its payload; 4 is a value outside the enumeration
ActionVariants ==
  {[Action |-> ActionList, Patch |-> "", Exec |-> ""],
   [Action |-> ActionDelete, Patch |-> "", Exec |-> ""],
   [Action |-> ActionPatch, Patch |-> "", Exec |-> ""],
   [Action |-> ActionPatch, Patch |-> "{}", Exec |-> ""],
   [Action |-> ActionExec, Patch |-> "", Exec |-> ""],
   [Action |-> ActionExec, Patch |-> "", Exec |-> "date"],
   [Action |-> 4, Patch |-> "", Exec |-> ""]}

RunOptions ==
  {[NoFilter(ns, av.Action) EXCEPT !.Patch = av.Patch, !.Exec = av.Exec,
                                   !.SkipConfirm = skip, !.NameRegex = re] :
     ns \in {"", "default"}, av \in ActionVariants, skip \in BOOLEAN,
     re \in {NoRegex, Regex({"a"})}}

\* standard input of a handler run
StdinSamples ==
  {<<"y", "\n">>, <<"n", "\n">>, <<"\n">>, <<" ", "Y", "E", "S">>}

Alphabet == {"y", "Y", "e", "E", "s", "S", "n", " ", "\n"}

AllInputs == UNION {[1..k -> Alphabet] : k \in 0..MaxInputLen}

NotAsked == [done |-> FALSE, in |-> <<>>, err |-> FALSE, answer |-> FALSE]

NoResult == [kind |-> "none", msg |-> "", item |-> "", wraps |-> ""]

Nil == [kind |-> "nil", msg |-> "", item |-> "", wraps |-> ""]

Errorf(msg, item, wraps) == [kind |-> "err", msg |-> msg, item |-> item, wraps |-> wraps]

Panic(msg) == [kind |-> "panic", msg |-> msg, item |-> "", wraps |-> ""]

IdleBench == [stage |-> "idle"]

\* HandleAction called directly, without the command around it
NoCommand == [stage |-> "none"]

\* a handler built without node-label columns
NoNodeColumns == [stage |-> "none"]

Init ==
  /\ \E h \in Handlers, o \in RunOptions :
       \E c \in Clusters(h.resource) :
         /\ cfg = [handler |-> h.variant, resource |-> h.resource,
                   opts |-> o, cluster |-> c]
         /\ remote = c
  /\ stdin \in StdinSamples
  /\ pc = "list"
  /\ list = <<>>
  /\ token = 0
  /\ matched = <<>>
  /\ idx = 1
  /\ out = <<>>
  /\ errOut = <<>>
  /\ requests = <<>>
  /\ printed = <<>>
  /\ asked = NotAsked
  /\ result = NoResult
  /\ mc = IdleBench
  /\ cli = NoCommand
  /\ nodes = NoNodeColumns

(***************************************************************************)
(* The API server, as the handlers' clients see it.                        *)
(***************************************************************************)
Min(a, b) == IF a < b THEN a ELSE b

\* the stored objects a list request scoped to namespace ns returns
\* ("" is every namespace; a cluster-scoped kind is always listed whole)
Visible(objs, ns) ==
  SelectSeq(objs, LAMBDA d : ns = "" \/ GetNamespace(d) = ns)

\* the objects a list request with ListOptions.LabelSelector = selector
\* returns: "" selects every object, "key=value" the objects so labelled
Selected(objs, selector) ==
  SelectSeq(objs, LAMBDA d : selector = "" \/ selector \in d.metadata.labels)

\* the positions of the stored object a request for (name, ns) addresses
Target(objs, name, ns) ==
  {i \in DOMAIN objs : GetName(objs[i]) = name /\ GetNamespace(objs[i]) = ns}

\* the outcomes of a delete or patch request: the addressed object is missing,
\* or the server serves the request, or the request fails on the way
MutationOutcomes(objs, name, ns) ==
  IF Target(objs, name, ns) = {} THEN {"notfound"} ELSE {"ok", "fail"}

RemoveAt(objs, i) == SubSeq(objs, 1, i - 1) \o SubSeq(objs, i + 1, Len(objs))

Deleted(objs, name, ns) ==
  LET i == CHOOSE k \in Target(objs, name, ns) : TRUE IN RemoveAt(objs, i)

Patched(objs, name, ns) ==
  [i \in DOMAIN objs |->
     IF i \in Target(objs, name, ns)
       THEN [objs[i] EXCEPT !.metadata.generation = @ + 1]
       ELSE objs[i]]

Req(op, name, ns, res, tok) ==
  [op |-> op, name |-> name, ns |-> ns, res |-> res, token |-> tok,
   selector |-> cfg.opts.LabelSelector]

(***************************************************************************)
(* HandleAction, step by step.                                             *)
(***************************************************************************)
IsPod == cfg.handler = "pod"

\* the namespace the UniversalHandler's `resources` client is bound to
resourcesNamespace ==
  IF cfg.resource.IsNamespaced THEN cfg.opts.Namespace ELSE ""

\* variant: every element of the matched slice aliases the last candidate
ItemName_Aliased(item) ==
  IF IsPod THEN matched[Len(matched)].Name ELSE GetName(matched[Len(matched)])

ItemName(item) == IF IsPod THEN item.Name ELSE GetName(item)

ItemNamespace(item) == IF IsPod THEN item.Namespace ELSE GetNamespace(item)

\* the namespace a delete or patch request for a matched item is sent to
RequestNamespace(item) ==
  IF IsPod THEN item.Namespace ELSE resourcesNamespace

\* UniversalHandler.printResource, and the preview line of the PodHandler
printResource(item) ==
  IF IsPod
    THEN <<"-", item.Name, "in namespace", item.Namespace>>
    ELSE IF cfg.resource.IsNamespaced /\ cfg.opts.Namespace = ""
      THEN <<"-", GetName(item), "in namespace", GetNamespace(item)>>
      ELSE <<"-", GetName(item)>>

\* the line reporting one successful delete or patch
successLine(verb, item) ==
  IF IsPod
    THEN <<verb, "pod", item.Name, "in namespace", item.Namespace>>
    ELSE <<verb, cfg.resource.SingularName, GetName(item)>>

headerLine(what) ==
  <<"The following", IF IsPod THEN "pods" ELSE cfg.resource.PluralName, what>>

ActionWords ==
  CASE cfg.opts.Action = ActionDelete ->
         [header |-> "will be deleted:", cancel |-> "Deletion cancelled.",
          op |-> "delete", done |-> "Deleted", failed |-> "failed to delete"]
    [] cfg.opts.Action = ActionPatch ->
         [header |-> "will be patched:", cancel |-> "Patch cancelled.",
          op |-> "patch", done |-> "Patched", failed |-> "failed to patch"]
    [] OTHER ->
         [header |-> "will have the command executed:",
          cancel |-> "Execution cancelled.",
          op |-> "exec", done |-> "", failed |-> "failed to execute command on pod"]

\* PodHandler: the single list request
ListPods ==
  /\ pc = "list"
  /\ IsPod
  /\ \E ok \in BOOLEAN :
       /\ requests' = Append(requests,
            Req("list", "", cfg.opts.Namespace, IF ok THEN "ok" ELSE "fail", 0))
       /\ IF ok
            THEN LET visible == Selected(Visible(remote, cfg.opts.Namespace),
                                         cfg.opts.LabelSelector) IN
                 /\ list' = [i \in DOMAIN visible |-> ToPod(visible[i])]
                 /\ pc' = "match"
                 /\ result' = result
            ELSE /\ list' = list
                 /\ pc' = "done"
                 /\ result' = Errorf("failed to list pods", "pods", "fail")
  /\ UNCHANGED <<cli, nodes, cfg, remote, stdin, token, matched, idx, out,
                 errOut, printed, asked, mc>>

\* variant: the loop is left after every page
LoopEnds_Always(continueToken) == TRUE

\* the exit of the cursor loop: continueToken == "" (the token 0)
LoopEnds(continueToken) == continueToken = 0

\* UniversalHandler.getResources: one iteration of the cursor loop
getResources ==
  /\ pc = "list"
  /\ ~IsPod
  /\ \E ok \in BOOLEAN, n \in 1..MaxPageSize :
       LET visible == Selected(Visible(remote, resourcesNamespace),
                               cfg.opts.LabelSelector)
           last    == Min(token + n, Len(visible))
           next    == IF last < Len(visible) THEN last ELSE 0
       IN
       /\ requests' = Append(requests,
            Req("list", "", resourcesNamespace, IF ok THEN "ok" ELSE "fail", token))
       /\ IF ok
            THEN /\ list' = list \o SubSeq(visible, token + 1, last)
                 /\ token' = next
                 /\ pc' = IF LoopEnds(next) THEN "match" ELSE "list"
                 /\ result' = result
            ELSE /\ list' = list
                 /\ token' = token
                 /\ pc' = "done"
                 /\ result' = Errorf("failed to list", cfg.resource.PluralName, "fail")
  /\ UNCHANGED <<cli, nodes, cfg, remote, stdin, matched, idx, out, errOut,
                 printed, asked, mc>>

\* variant: the empty matched set is not returned on early
NothingMatched_Never(m) == FALSE

\* the guard of the early return: len(matchedItems) == 0
NothingMatched(m) == Len(m) = 0

\* variant: the failure of an item is not returned
ReturnError_Swallowed(msg, item, cause) ==
  /\ result' = result
  /\ pc' = pc

\* return fmt.Errorf(msg + " <item>: %w", cause) out of the per-item loop
ReturnError(msg, item, cause) ==
  /\ result' = Errorf(msg, item, cause)
  /\ pc' = "done"

\* the verdict of the handler's matcher on a fetched candidate
Matches(item) ==
  IF IsPod THEN getMatcher(cfg.opts, item) ELSE resourceMatches(item, cfg.opts)

\* the filter loop, and the early return on an empty matched set
MatchItems ==
  /\ pc = "match"
  /\ LET m == SelectSeq(list, Matches) IN
     /\ matched' = m
     /\ pc' = IF NothingMatched(m) THEN "done" ELSE "dispatch"
     /\ result' = IF NothingMatched(m) THEN Nil ELSE result
  /\ UNCHANGED <<cli, nodes, cfg, remote, stdin, list, token, idx, out,
                 errOut, requests, printed, asked, mc>>

\* ActionList: hand the matched set to the printer
PrintMatched ==
  /\ pc = "dispatch"
  /\ cfg.opts.Action = ActionList
  /\ printed' = Append(printed,
       IF IsPod THEN [i \in DOMAIN matched |-> ToUnstructured(matched[i])]
                ELSE matched)
  /\ \E failed \in BOOLEAN :
       result' = IF failed THEN Errorf("print objects", "", "printer") ELSE Nil
  /\ pc' = "done"
  /\ UNCHANGED <<cli, nodes, cfg, remote, stdin, list, token, matched, idx,
                 out, errOut, requests, asked, mc>>

\* ActionPatch without a patch document, ActionExec without a command
RejectEmptyPayload ==
  /\ pc = "dispatch"
  /\ \/ /\ cfg.opts.Action = ActionPatch
        /\ cfg.opts.Patch = ""
        /\ result' = Errorf("patch content is required for patch action", "", "")
     \/ /\ IsPod
        /\ cfg.opts.Action = ActionExec
        /\ cfg.opts.Exec = ""
        /\ result' = Errorf("exec command is required for exec action", "", "")
  /\ pc' = "done"
  /\ UNCHANGED <<cli, nodes, cfg, remote, stdin, list, token, matched, idx,
                 out, errOut, requests, printed, asked, mc>>

\* an action the handler has no branch for
Unsupported ==
  /\ pc = "dispatch"
  /\ \/ /\ ~IsPod
        /\ cfg.opts.Action \notin {ActionList, ActionDelete, ActionPatch}
        /\ result' = Errorf("unsupported action", "", "")
     \/ /\ IsPod
        /\ cfg.opts.Action \notin {ActionList, ActionDelete, ActionPatch, ActionExec}
        /\ result' = Panic("unimplemented action")
  /\ pc' = "done"
  /\ UNCHANGED <<cli, nodes, cfg, remote, stdin, list, token, matched, idx,
                 out, errOut, requests, printed, asked, mc>>

\* variant: the exec action goes ahead whatever its command
Proceeds_AnyCommand ==
  \/ cfg.opts.Action = ActionDelete
  \/ cfg.opts.Action = ActionPatch /\ cfg.opts.Patch # ""
  \/ IsPod /\ cfg.opts.Action = ActionExec

\* the action goes ahead: to the preview, or straight to the loop when
\* SkipConfirm is set
Proceeds ==
  \/ cfg.opts.Action = ActionDelete
  \/ cfg.opts.Action = ActionPatch /\ cfg.opts.Patch # ""
  \/ IsPod /\ cfg.opts.Action = ActionExec /\ cfg.opts.Exec # ""

\* variant: the confirmation is asked for even when SkipConfirm is set
SkipsConfirmation_Never == FALSE

\* the guard of the preview and the prompt: if !options.SkipConfirm
SkipsConfirmation == cfg.opts.SkipConfirm

\* variant: the confirmation is asked for without the preview
BeginAction_NoPreview ==
  /\ pc = "dispatch"
  /\ Proceeds
  /\ pc' = IF SkipsConfirmation THEN "loop" ELSE "ask"
  /\ UNCHANGED <<cli, nodes, cfg, remote, stdin, list, token, matched, idx, out,
                 errOut, requests, printed, asked, result, mc>>

BeginAction ==
  /\ pc = "dispatch"
  /\ Proceeds
  /\ pc' = IF SkipsConfirmation THEN "loop" ELSE "preview"
  /\ UNCHANGED <<cli, nodes, cfg, remote, stdin, list, token, matched, idx,
                 out, errOut, requests, printed, asked, result, mc>>

\* the header and one line per matched item, on standard error
Preview ==
  /\ pc = "preview"
  /\ errOut' = errOut \o <<headerLine(ActionWords.header)>>
                      \o [i \in DOMAIN matched |-> printResource(matched[i])]
  /\ pc' = "ask"
  /\ UNCHANGED <<cli, nodes, cfg, remote, stdin, list, token, matched, idx,
                 out, requests, printed, asked, result, mc>>

\* prompts.AskForConfirmation and the cancellation branch
Confirm ==
  /\ pc = "ask"
  /\ LET r == ReadString(stdin, "\n")
         yes == AskForConfirmation(stdin)
     IN
     /\ asked' = [done |-> TRUE, in |-> stdin, err |-> r.err, answer |-> yes]
     /\ stdin' = r.rest
     /\ IF yes
          THEN /\ errOut' = Append(errOut, <<Prompt>>)
               /\ pc' = "loop"
               /\ result' = result
          ELSE /\ errOut' = errOut \o <<(<<Prompt>>), (<<ActionWords.cancel>>)>>
               /\ pc' = "done"
               /\ result' = Nil
  /\ UNCHANGED <<cli, nodes, cfg, remote, list, token, matched, idx, out,
                 requests, printed, mc>>

\* one iteration of the delete loop
DeleteItem ==
  /\ pc = "loop"
  /\ cfg.opts.Action = ActionDelete
  /\ idx <= Len(matched)
  /\ LET item == matched[idx]
         name == ItemName(item)
         ns   == RequestNamespace(item)
     IN
     \E res \in MutationOutcomes(remote, name, ns) :
       /\ requests' = Append(requests, Req("delete", name, ns, res, 0))
       /\ IF res = "ok"
            THEN /\ remote' = Deleted(remote, name, ns)
                 /\ out' = Append(out, successLine("Deleted", item))
                 /\ idx' = idx + 1
                 /\ UNCHANGED <<pc, result>>
            ELSE /\ ReturnError("failed to delete", name, res)
                 /\ UNCHANGED <<remote, out, idx>>
  /\ UNCHANGED <<cli, nodes, cfg, stdin, list, token, matched, errOut,
                 printed, asked, mc>>

\* one iteration of the patch loop
PatchItem ==
  /\ pc = "loop"
  /\ cfg.opts.Action = ActionPatch
  /\ idx <= Len(matched)
  /\ LET item == matched[idx]
         name == ItemName(item)
         ns   == RequestNamespace(item)
     IN
     \E res \in MutationOutcomes(remote, name, ns) :
       /\ requests' = Append(requests, Req("patch", name, ns, res, 0))
       /\ IF res = "ok"
            THEN /\ remote' = Patched(remote, name, ns)
                 /\ out' = Append(out, successLine("Patched", item))
                 /\ idx' = idx + 1
                 /\ UNCHANGED <<pc, result>>
            ELSE /\ ReturnError("failed to patch", name, res)
                 /\ UNCHANGED <<remote, out, idx>>
  /\ UNCHANGED <<cli, nodes, cfg, stdin, list, token, matched, errOut,
                 printed, asked, mc>>

\* one iteration of the exec loop of the PodHandler: the executor is built,
\* then the stream runs; either can fail
ExecItem ==
  /\ pc = "loop"
  /\ cfg.opts.Action = ActionExec
  /\ idx <= Len(matched)
  /\ LET item == matched[idx] IN
     \E res \in {"ok", "noexecutor", "fail"} :
       /\ requests' = Append(requests, Req("exec", item.Name, item.Namespace, res, 0))
       /\ IF res = "ok"
            THEN /\ out' = Append(out, <<"output of", cfg.opts.Exec, item.Name>>)
                 /\ idx' = idx + 1
                 /\ UNCHANGED <<pc, result>>
            ELSE /\ ReturnError(IF res = "noexecutor"
                                    THEN "failed to create executor for pod"
                                    ELSE "failed to execute command on pod",
                                  item.Name, res)
                 /\ UNCHANGED <<out, idx>>
  /\ UNCHANGED <<cli, nodes, cfg, remote, stdin, list, token, matched, errOut,
                 printed, asked, mc>>

\* the loop is over: return nil
ReturnNil ==
  /\ pc = "loop"
  /\ idx > Len(matched)
  /\ result' = Nil
  /\ pc' = "done"
  /\ UNCHANGED <<cli, nodes, cfg, remote, stdin, list, token, matched, idx,
                 out, errOut, requests, printed, asked, mc>>

Next ==
  \/ ListPods
  \/ getResources
  \/ MatchItems
  \/ PrintMatched
  \/ RejectEmptyPayload
  \/ Unsupported
  \/ BeginAction
  \/ Preview
  \/ Confirm
  \/ DeleteItem
  \/ PatchItem
  \/ ExecItem
  \/ ReturnNil

Spec == Init /\ [][Next]_vars

(***************************************************************************)
(* The confirmation prompt over every content of standard input: a delete  *)
(* run of the PodHandler over one pod, taken up after the preview.         *)
(***************************************************************************)
PromptRunDoc == PlainDoc(<<"a", "default">>)

InitConfirm ==
  /\ cfg = [handler |-> "pod", resource |-> PodType,
            opts |-> NoFilter("default", ActionDelete),
            cluster |-> <<PromptRunDoc>>]
  /\ remote = <<PromptRunDoc>>
  /\ stdin \in AllInputs
  /\ pc = "ask"
  /\ list = <<ToPod(PromptRunDoc)>>
  /\ token = 0
  /\ matched = <<ToPod(PromptRunDoc)>>
  /\ idx = 1
  /\ out = <<>>
  /\ errOut = <<(<<"The following", "pods", "will be deleted:">>),
                (<<"-", "a", "in namespace", "default">>)>>
  /\ requests = <<[op |-> "list", name |-> "", ns |-> "default", res |-> "ok",
                   token |-> 0, selector |-> ""]>>
  /\ printed = <<>>
  /\ asked = NotAsked
  /\ result = NoResult
  /\ mc = IdleBench
  /\ cli = NoCommand
  /\ nodes = NoNodeColumns

NextConfirm ==
  \/ Confirm
  \/ DeleteItem
  \/ ReturnNil

SpecConfirm == InitConfirm /\ [][NextConfirm]_vars

(***************************************************************************)
(* Runs of the UniversalHandler under a jq query: the stored objects       *)
(* differ in what the user's expression emits for them.                    *)
(***************************************************************************)
QueryNames == {"a", "b", "c"}

QueryEmits == {<<"error">>, <<"true">>, <<"false">>, <<"value", "error">>}

QueryDoc(name, emits) == Doc(name, "default", 1, "Running", "n1", "", <<0>>, emits)

QueryClusters ==
  {[i \in DOMAIN s |-> QueryDoc(s[i], e[i])] :
     s \in DistinctSeqs(QueryNames, MaxItems), e \in [1..MaxItems -> QueryEmits]}

QueryRunOptions ==
  {[NoFilter("default", a) EXCEPT !.Patch = "{}", !.SkipConfirm = TRUE,
                                  !.JQQuery = TheQuery] :
     a \in {ActionList, ActionDelete, ActionPatch}}

InitQuery ==
  /\ \E o \in QueryRunOptions, c \in QueryClusters :
       /\ cfg = [handler |-> "universal", resource |-> ConfigMapType,
                 opts |-> o, cluster |-> c]
       /\ remote = c
  /\ stdin = <<>>
  /\ pc = "list"
  /\ list = <<>>
  /\ token = 0
  /\ matched = <<>>
  /\ idx = 1
  /\ out = <<>>
  /\ errOut = <<>>
  /\ requests = <<>>
  /\ printed = <<>>
  /\ asked = NotAsked
  /\ result = NoResult
  /\ mc = IdleBench
  /\ cli = NoCommand
  /\ nodes = NoNodeColumns

NextQuery ==
  \/ getResources
  \/ MatchItems
  \/ PrintMatched
  \/ BeginAction
  \/ DeleteItem
  \/ PatchItem
  \/ ReturnNil

SpecQuery == InitQuery /\ [][NextQuery]_vars

(***************************************************************************)
(* Runs of the UniversalHandler under a label selector: the stored objects *)
(* differ in their labels, and the loop of getResources runs to its end    *)
(* whenever it can take a step.                                            *)
(***************************************************************************)
FetchSelector == "app=web"

\* an object of the run, with its labels, each written "key=value"
FetchDoc(name, labelled) ==
  [PlainDoc(<<name, "default">>) EXCEPT
     !.metadata.labels = IF labelled THEN {FetchSelector} ELSE {}]

FetchClusters ==
  {[i \in DOMAIN s |-> FetchDoc(s[i], l[i])] :
     s \in DistinctSeqs({"a", "b", "c", "d"}, MaxItems), l \in [1..MaxItems -> BOOLEAN]}

FetchRunOptions ==
  {[NoFilter("default", a) EXCEPT !.LabelSelector = sel, !.SkipConfirm = TRUE] :
     a \in {ActionList, ActionDelete}, sel \in {"", FetchSelector}}

InitFetch ==
  /\ \E o \in FetchRunOptions, c \in FetchClusters :
       /\ cfg = [handler |-> "universal", resource |-> ConfigMapType,
                 opts |-> o, cluster |-> c]
       /\ remote = c
  /\ stdin = <<>>
  /\ pc = "list"
  /\ list = <<>>
  /\ token = 0
  /\ matched = <<>>
  /\ idx = 1
  /\ out = <<>>
  /\ errOut = <<>>
  /\ requests = <<>>
  /\ printed = <<>>
  /\ asked = NotAsked
  /\ result = NoResult
  /\ mc = IdleBench
  /\ cli = NoCommand
  /\ nodes = NoNodeColumns

NextFetch ==
  \/ getResources
  \/ MatchItems
  \/ PrintMatched
  \/ BeginAction
  \/ DeleteItem
  \/ ReturnNil

\* the for loop of getResources is sequential code: an iteration that can run
\* does run
SpecFetch == InitFetch /\ [][NextFetch]_vars /\ WF_vars(getResources)

(***************************************************************************)
(* The node-label columns of the pod table and their node cache.           *)
(***************************************************************************)
\* variant: the placeholder of a missing label stands for an unread node too
UnknownStr_None == "<none>"

UnknownStr == "<unknown>"

NoneStr == "<none>"

\* the node objects of the cluster, by name: their labels
NodeStore == [n1 |-> [zone |-> "z1"], n2 |-> [region |-> "r1"]]

LabelKeys == {"zone", "region"}

\* make(map[...]...)
EmptyMap == [x \in {} |-> ""]

\* a map with one more entry
Put(m, k, v) == (k :> v) @@ m

\* the closure getCacheFunc returns, called with (nodeName, labelKey): the
\* value, the two maps afterwards and the node read, got being the outcome
\* of Nodes().Get if it is called
cacheFunc(nodeCache, labelCache, nodeName, labelKey, got) ==
  IF nodeName \in DOMAIN labelCache
    THEN LET labels == labelCache[nodeName] IN
         IF labelKey \in DOMAIN labels
           THEN [value |-> labels[labelKey], nodeCache |-> nodeCache,
                 labelCache |-> labelCache, reads |-> <<>>]
         ELSE IF labelKey \in DOMAIN nodeCache[nodeName]
           THEN [value |-> nodeCache[nodeName][labelKey], nodeCache |-> nodeCache,
                 labelCache |-> Put(labelCache, nodeName,
                                    Put(labels, labelKey, nodeCache[nodeName][labelKey])),
                 reads |-> <<>>]
         ELSE [value |-> NoneStr, nodeCache |-> nodeCache,
               labelCache |-> Put(labelCache, nodeName, Put(labels, labelKey, NoneStr)),
               reads |-> <<>>]
  ELSE LET miss == nodeName \notin DOMAIN nodeCache
           read == IF miss THEN <<[node |-> nodeName, res |-> got]>> ELSE <<>>
       IN
       IF miss /\ got # "ok"
         THEN [value |-> UnknownStr, nodeCache |-> nodeCache,
               labelCache |-> labelCache, reads |-> read]
       ELSE LET cached == IF miss THEN Put(nodeCache, nodeName, NodeStore[nodeName])
                          ELSE nodeCache
            IN
            IF labelKey \in DOMAIN cached[nodeName]
              THEN [value |-> cached[nodeName][labelKey], nodeCache |-> cached,
                    labelCache |-> Put(labelCache, nodeName,
                                       Put(EmptyMap, labelKey, cached[nodeName][labelKey])),
                    reads |-> read]
            ELSE [value |-> NoneStr, nodeCache |-> cached,
                  labelCache |-> labelCache, reads |-> read]

\* GetLabelColumns: one column per requested node label, each with the
\* closure of its own call of getCacheFunc
NodeLabelColumns(keys) ==
  [c \in DOMAIN keys |->
     [key |-> keys[c], nodeCache |-> EmptyMap, labelCache |-> EmptyMap]]

\* the node-label keys of a run, and the spec.nodeName of the pods it prints
\* ("" for a pod without one)
ColumnInputs ==
  {[keys |-> k, rows |-> r] :
     k \in DistinctSeqs(LabelKeys, MaxNodeLabels) \ {<<>>},
     r \in UNION {[1..n -> {""} \cup NodeNames] : n \in 1..MaxItems}}

InitColumns ==
  /\ \E in \in ColumnInputs :
       nodes = [stage |-> "print", columns |-> NodeLabelColumns(in.keys),
                rows |-> in.rows, row |-> 1, col |-> 1, reads |-> <<>>,
                cells |-> <<>>]
  /\ cfg = [handler |-> "pod", resource |-> PodType,
            opts |-> NoFilter("default", ActionList), cluster |-> <<>>]
  /\ remote = <<>>
  /\ stdin = <<>>
  /\ pc = "print"
  /\ list = <<>>
  /\ token = 0
  /\ matched = <<>>
  /\ idx = 1
  /\ out = <<>>
  /\ errOut = <<>>
  /\ requests = <<>>
  /\ printed = <<>>
  /\ asked = NotAsked
  /\ result = NoResult
  /\ mc = IdleBench
  /\ cli = NoCommand

\* PrintObjects: the Value function of one node-label column on one pod
PrintCell ==
  /\ pc = "print"
  /\ nodes.stage = "print"
  /\ nodes.row <= Len(nodes.rows)
  /\ LET c        == nodes.col
         column   == nodes.columns[c]
         nodeName == nodes.rows[nodes.row]
         last     == c = Len(nodes.columns)
     IN
     \E got \in {"ok", "fail"} :
       LET r == IF nodeName = ""
                  THEN [value |-> UnknownStr, nodeCache |-> column.nodeCache,
                        labelCache |-> column.labelCache, reads |-> <<>>]
                ELSE cacheFunc(column.nodeCache, column.labelCache, nodeName,
                               column.key, got)
       IN
       nodes' = [nodes EXCEPT
                   !.columns[c].nodeCache = r.nodeCache,
                   !.columns[c].labelCache = r.labelCache,
                   !.reads = @ \o r.reads,
                   !.cells = Append(@, r.value),
                   !.col = IF last THEN 1 ELSE c + 1,
                   !.row = IF last THEN @ + 1 ELSE @]
  /\ UNCHANGED <<cfg, remote, stdin, pc, list, token, matched, idx, out, errOut,
                 requests, printed, asked, result, mc, cli>>

NextColumns == PrintCell

SpecColumns == InitColumns /\ [][NextColumns]_vars

(***************************************************************************)
(* The label and annotation columns of a table.                            *)
(***************************************************************************)
\* strings.ToUpper on one character of the keys of the model
UpperChar(c) ==
  CASE c = "a" -> "A"
    [] c = "b" -> "B"
    [] OTHER -> c

ToUpper(s) == [i \in 1..Len(s) |-> UpperChar(s[i])]

\* strings.Split(s, "/"): the parts between the slashes, in order
RECURSIVE Split(_)
Split(s) ==
  LET k == IndexFrom(s, "/", 1) IN
  IF k = 0 THEN <<s>>
  ELSE <<SubSeq(s, 1, k - 1)>> \o Split(SubSeq(s, k + 1, Len(s)))

\* variant: the header is the part after the last slash
labelToColumnHeader_LastPart(label) ==
  LET parts == Split(label) IN ToUpper(parts[Len(parts)])

labelToColumnHeader(label) ==
  LET parts == Split(label) IN
  IF Len(parts) = 2 THEN ToUpper(parts[2]) ELSE ToUpper(label)

\* unstructured.NestedString(obj.Object, "metadata", field, key)
NestedString(obj, field, key) ==
  IF key \in DOMAIN obj[field] THEN [value |-> obj[field][key], found |-> TRUE]
  ELSE [value |-> "", found |-> FALSE]

\* the Value closure of a label or annotation column
KeyColumnValue(column, obj) ==
  LET r == NestedString(obj, column.field, column.key) IN
  IF r.found THEN r.value ELSE NoneStr

\* GetAnnotationColumns
GetAnnotationColumns(annotations) ==
  [i \in DOMAIN annotations |->
     [Header |-> labelToColumnHeader(annotations[i]), field |-> "annotations",
      key |-> annotations[i]]]

\* GetLabelColumns: the columns of the object's own labels
GetLabelColumns(labels) ==
  [i \in DOMAIN labels |->
     [Header |-> labelToColumnHeader(labels[i]), field |-> "labels",
      key |-> labels[i]]]

\* label and annotation keys, as the command line gives them
KeySamples ==
  {<<"a">>, <<"a", "b">>, <<"a", "/", "b">>, <<"/">>, <<"a", "/">>, <<"/", "b">>,
   <<"a", "/", "b", "/", "a">>, <<"/", "/">>}

\* the value an object of the model has under a key, when it has the key
ValueFor(key) ==
  CASE key = <<"a">> -> "v1"
    [] key = <<"a", "b">> -> "v2"
    [] key = <<"a", "/", "b">> -> "v3"
    [] key = <<"a", "/", "b", "/", "a">> -> "v4"
    [] key = <<"/", "b">> -> "v5"
    [] OTHER -> ""

\* the label or annotation maps of the objects rendered for the keys
KeyMaps(keys) ==
  {[k \in P |-> ValueFor(k)] :
     P \in SUBSET ({keys[i] : i \in DOMAIN keys} \cup {<<"a">>})}

\* the requested keys (--labels or the annotations option) and the object
KeyInputs ==
  UNION {{[field |-> f, keys |-> ks, map |-> m] :
            f \in {"labels", "annotations"}, m \in KeyMaps(ks)} :
         ks \in UNION {[1..n -> KeySamples] : n \in 0..MaxKeys}}

InitKeys ==
  /\ \E in \in KeyInputs :
       nodes = [stage |-> "keys", field |-> in.field, keys |-> in.keys,
                obj |-> [labels |-> IF in.field = "labels" THEN in.map ELSE EmptyMap,
                         annotations |-> IF in.field = "annotations" THEN in.map
                                         ELSE EmptyMap],
                columns |-> <<>>, cells |-> <<>>]
  /\ cfg = [handler |-> "universal", resource |-> ConfigMapType,
            opts |-> NoFilter("default", ActionList), cluster |-> <<>>]
  /\ remote = <<>>
  /\ stdin = <<>>
  /\ pc = "print"
  /\ list = <<>>
  /\ token = 0
  /\ matched = <<>>
  /\ idx = 1
  /\ out = <<>>
  /\ errOut = <<>>
  /\ requests = <<>>
  /\ printed = <<>>
  /\ asked = NotAsked
  /\ result = NoResult
  /\ mc = IdleBench
  /\ cli = NoCommand

\* the handler is built: GetAnnotationColumns on the requested annotations
BuildAnnotationColumns ==
  /\ nodes.stage = "keys"
  /\ nodes.field = "annotations"
  /\ nodes' = [nodes EXCEPT !.stage = "render",
                            !.columns = GetAnnotationColumns(nodes.keys)]
  /\ UNCHANGED <<cfg, remote, stdin, pc, list, token, matched, idx, out, errOut,
                 requests, printed, asked, result, mc, cli>>

\* the handler is built: GetLabelColumns on the requested labels
BuildLabelColumns ==
  /\ nodes.stage = "keys"
  /\ nodes.field = "labels"
  /\ nodes' = [nodes EXCEPT !.stage = "render",
                            !.columns = GetLabelColumns(nodes.keys)]
  /\ UNCHANGED <<cfg, remote, stdin, pc, list, token, matched, idx, out, errOut,
                 requests, printed, asked, result, mc, cli>>

\* PrintObjects: the Value closure of the next column on the object
RenderKeyCell ==
  /\ nodes.stage = "render"
  /\ Len(nodes.cells) < Len(nodes.columns)
  /\ nodes' = [nodes EXCEPT !.cells =
       Append(@, KeyColumnValue(nodes.columns[Len(nodes.cells) + 1], nodes.obj))]
  /\ UNCHANGED <<cfg, remote, stdin, pc, list, token, matched, idx, out, errOut,
                 requests, printed, asked, result, mc, cli>>

NextKeys ==
  \/ BuildAnnotationColumns
  \/ BuildLabelColumns
  \/ RenderKeyCell

SpecKeys == InitKeys /\ [][NextKeys]_vars

(***************************************************************************)
(* The command: flags, Complete, Validate, Run, exit.                      *)
(***************************************************************************)
\* a []string flag that was not given (nil)
NoKeys == [given |-> FALSE, keys |-> <<>>]

Keys(ks) == [given |-> TRUE, keys |-> ks]

\* NewFindOptions and the flag defaults of NewCmdFind
DefaultFlags ==
  [searchType |-> "pods", namespace |-> "", allNamespaces |-> FALSE,
   delete |-> FALSE, exec |-> "", patch |-> "", regex |-> "", podStatus |-> "",
   minAge |-> "", maxAge |-> "", labelSelector |-> "", nodeNameRegex |-> "",
   skipConfirm |-> FALSE, restarted |-> FALSE, imageRegex |-> "",
   jqFilter |-> "", showNodeLabels |-> NoKeys]

\* regexp.Compile: "(" does not compile; a pattern that compiles matches the
\* strings of the model that contain it
Compile(expr) ==
  IF expr = "(" THEN [re |-> NoRegex, err |-> TRUE]
  ELSE [re |-> Regex(CASE expr = "a" -> {"a"}
                       [] expr = "n1" -> {"n1"}
                       [] expr = "nginx" -> {"nginx", "bitnami/nginx"}
                       [] OTHER -> {}),
        err |-> FALSE]

\* time.ParseDuration, in ticks of one hour: a negative duration parses
ParseDuration(str) ==
  CASE str = "1h" -> [d |-> 1, err |-> FALSE]
    [] str = "2h" -> [d |-> 2, err |-> FALSE]
    [] str = "-1h" -> [d |-> 0 - 1, err |-> FALSE]
    [] OTHER -> [d |-> 0, err |-> TRUE]

ValidPodStatuses == {"Pending", "Running", "Succeeded", "Failed", "Unknown"}

IsValidPodStatus(status) == status \in ValidPodStatuses

\* PrepareQuery: gojq.Parse of the wrapped expression; "(" does not parse
PrepareQuery(expr) ==
  IF expr = "(" THEN [query |-> NoQuery, err |-> TRUE]
  ELSE [query |-> TheQuery, err |-> FALSE]

\* findResource: the kinds the discovery of the model's server resolves
findResource(resource) ==
  CASE resource = "pods" -> [res |-> PodType, err |-> FALSE]
    [] resource = "configmaps" -> [res |-> ConfigMapType, err |-> FALSE]
    [] resource = "namespaces" -> [res |-> NamespaceType, err |-> FALSE]
    [] OTHER -> [res |-> PodType, err |-> TRUE]

\* variant: every kind gets the generic handler
GetResourceHandler_Generic(resource) == "universal"

\* GetResourceHandler
GetResourceHandler(resource) == IF resource = PodType THEN "pod" ELSE "universal"

\* ResourceHandler.IsExecutable
IsExecutable(handler) == handler = "pod"

\* variant: every kind passes for pods
IsPodType_Any(resource) == TRUE

\* o.resourceType.GroupVersionResource == handlers.PodType
IsPodType(resource) == resource = PodType

\* FindOptions.Complete: the namespace of the run
Complete(o, contextExists) ==
  IF ~contextExists THEN [err |-> "no context is currently set", ns |-> ""]
  ELSE IF o.namespace # "" /\ o.allNamespaces
    THEN [err |-> "cannot specify both --namespace and --all-namespaces flags",
          ns |-> o.namespace]
  ELSE IF o.namespace # "" THEN [err |-> "", ns |-> o.namespace]
  ELSE IF o.allNamespaces THEN [err |-> "", ns |-> ""]
  ELSE [err |-> "", ns |-> "default"]

\* the action Validate selects from the flags
SelectedAction(o) ==
  IF o.exec # "" THEN ActionExec
  ELSE IF o.patch # "" THEN ActionPatch
  ELSE IF o.delete THEN ActionDelete
  ELSE ActionList

\* the first check of Validate that fails, "" when none does
ValidateError(o) ==
  LET found   == findResource(o.searchType)
      res     == found.res
      handler == GetResourceHandler(res)
  IN
  IF found.err THEN "unable to find resource type"
  ELSE IF o.patch # "" /\ o.delete
    THEN "cannot specify both --delete and --patch flags"
  ELSE IF o.exec # "" /\ (o.delete \/ o.patch # "")
    THEN "cannot specify both --delete or --patch and --exec flags"
  ELSE IF o.exec # "" /\ ~IsPodType(res)
    THEN "exec action is only supported for pods"
  ELSE IF SelectedAction(o) = ActionExec /\ ~IsExecutable(handler)
    THEN "resource type does not support execution"
  ELSE IF o.regex # "" /\ Compile(o.regex).err THEN "invalid regex"
  ELSE IF o.minAge # "" /\ ParseDuration(o.minAge).err THEN "invalid minimum age"
  ELSE IF o.maxAge # "" /\ ParseDuration(o.maxAge).err THEN "invalid maximum age"
  ELSE IF o.podStatus # "" /\ ~IsPodType(res)
    THEN "status filtering is only supported for pods"
  ELSE IF o.podStatus # "" /\ ~IsValidPodStatus(o.podStatus)
    THEN "invalid pod status"
  ELSE IF o.showNodeLabels.given /\ ~IsPodType(res)
    THEN "showing node labels is only supported for pods"
  ELSE IF o.nodeNameRegex # "" /\ ~IsPodType(res)
    THEN "node filtering is only supported for pods"
  ELSE IF o.nodeNameRegex # "" /\ Compile(o.nodeNameRegex).err
    THEN "invalid node name regex filter"
  ELSE IF o.imageRegex # "" /\ ~IsPodType(res)
    THEN "image filtering is only supported for pods"
  ELSE IF o.imageRegex # "" /\ Compile(o.imageRegex).err
    THEN "invalid image regex filter"
  ELSE IF o.jqFilter # "" /\ PrepareQuery(o.jqFilter).err THEN "invalid jq filter"
  ELSE ""

\* the ActionOptions Validate builds when no check fails
ValidatedOptions(o, ns) ==
  [Namespace |-> ns, LabelSelector |-> o.labelSelector,
   Action |-> SelectedAction(o),
   NameRegex |-> IF o.regex # "" THEN Compile(o.regex).re ELSE NoRegex,
   MinAge |-> IF o.minAge # "" THEN ParseDuration(o.minAge).d ELSE 0,
   MaxAge |-> IF o.maxAge # "" THEN ParseDuration(o.maxAge).d ELSE 0,
   SkipConfirm |-> o.skipConfirm,
   JQQuery |-> IF o.jqFilter # "" THEN PrepareQuery(o.jqFilter).query ELSE NoQuery,
   PodStatus |-> o.podStatus, Patch |-> o.patch, Exec |-> o.exec,
   NodeNameRegex |-> IF o.nodeNameRegex # "" THEN Compile(o.nodeNameRegex).re
                     ELSE NoRegex,
   Restarted |-> o.restarted,
   ImageRegex |-> IF o.imageRegex # "" THEN Compile(o.imageRegex).re ELSE NoRegex]

\* FindOptions.Validate
Validate(o, ns) ==
  LET res == findResource(o.searchType).res IN
  [err |-> ValidateError(o), resource |-> res, handler |-> GetResourceHandler(res),
   options |-> ValidatedOptions(o, ns)]

\* a flag given on the command line, with its value
FlagSettings ==
  {<<"searchType", "configmaps">>, <<"searchType", "bogus">>,
   <<"namespace", "kube-system">>, <<"allNamespaces", TRUE>>,
   <<"delete", TRUE>>, <<"exec", "date">>, <<"patch", "{}">>,
   <<"regex", "a">>, <<"regex", "(">>,
   <<"podStatus", "Running">>, <<"podStatus", "Bogus">>,
   <<"minAge", "1h">>, <<"minAge", "x">>, <<"maxAge", "2h">>, <<"maxAge", "x">>,
   <<"nodeNameRegex", "n1">>, <<"nodeNameRegex", "(">>,
   <<"imageRegex", "nginx">>, <<"imageRegex", "(">>,
   <<"jqFilter", ".a">>, <<"jqFilter", "(">>,
   <<"skipConfirm", TRUE>>, <<"restarted", TRUE>>,
   <<"showNodeLabels", Keys(<<"zone">>)>>}

\* the command lines with at most k flags given
RECURSIVE CommandLines(_)
CommandLines(k) ==
  IF k = 0 THEN {DefaultFlags}
  ELSE LET fewer == CommandLines(k - 1) IN
       fewer \cup {[o EXCEPT ![st[1]] = st[2]] : o \in fewer, st \in FlagSettings}

\* the objects of the requested kind stored in the cluster
CommandCluster(o) ==
  LET found == findResource(o.searchType) IN
  IF found.err THEN <<>>
  ELSE IF found.res.IsNamespaced
    THEN <<PlainDoc(<<"a", "default">>), PlainDoc(<<"b", "kube-system">>)>>
  ELSE <<PlainDoc(<<"a", "">>), PlainDoc(<<"b", "">>)>>

InitCommand ==
  /\ \E o \in CommandLines(MaxFlags) :
       /\ cli = [stage |-> "complete", flags |-> o, ns |-> "", err |-> "",
                 code |-> 0]
       /\ cfg = [handler |-> "none", resource |-> PodType,
                 opts |-> NoFilter("", ActionList), cluster |-> CommandCluster(o)]
       /\ remote = CommandCluster(o)
  /\ stdin \in {<<"y", "\n">>, <<"n", "\n">>}
  /\ pc = "cmd"
  /\ list = <<>>
  /\ token = 0
  /\ matched = <<>>
  /\ idx = 1
  /\ out = <<>>
  /\ errOut = <<>>
  /\ requests = <<>>
  /\ printed = <<>>
  /\ asked = NotAsked
  /\ result = NoResult
  /\ mc = IdleBench
  /\ nodes = NoNodeColumns

\* RunE: o.Complete(c, args)
CompleteCommand ==
  /\ cli.stage = "complete"
  /\ \E contextExists \in BOOLEAN :
       LET r == Complete(cli.flags, contextExists) IN
       cli' = [cli EXCEPT !.stage = IF r.err # "" THEN "failed" ELSE "validate",
                          !.ns = r.ns, !.err = r.err]
  /\ UNCHANGED <<cfg, remote, stdin, pc, list, token, matched, idx, out, errOut,
                 requests, printed, asked, result, mc, nodes>>

\* variant: RunE goes on to Run whatever Validate returned
ValidationPassed_Always(err) == TRUE

\* RunE: if err := o.Validate(); err != nil { return err }
ValidationPassed(err) == err = ""

\* RunE: o.Validate(), which builds the handler and the ActionOptions
ValidateCommand ==
  /\ cli.stage = "validate"
  /\ LET v == Validate(cli.flags, cli.ns) IN
     /\ cli' = [cli EXCEPT !.stage = IF ValidationPassed(v.err) THEN "run"
                                     ELSE "failed",
                           !.err = v.err]
     /\ cfg' = IF v.err = ""
                THEN [cfg EXCEPT !.handler = v.handler, !.resource = v.resource,
                                 !.opts = v.options]
                ELSE cfg
  /\ UNCHANGED <<remote, stdin, pc, list, token, matched, idx, out, errOut,
                 requests, printed, asked, result, mc, nodes>>

\* RunE: o.Run(), which invokes the handler's HandleAction
RunCommand ==
  /\ cli.stage = "run"
  /\ pc = "cmd"
  /\ cli' = [cli EXCEPT !.stage = "handling"]
  /\ pc' = "list"
  /\ UNCHANGED <<cfg, remote, stdin, list, token, matched, idx, out, errOut,
                 requests, printed, asked, result, mc, nodes>>

\* RunE returns what HandleAction returned
ReturnCommand ==
  /\ cli.stage = "handling"
  /\ pc = "done"
  /\ cli' = [cli EXCEPT !.stage = IF result.kind = "nil" THEN "returned"
                                  ELSE "failed",
                        !.err = result.msg]
  /\ UNCHANGED <<cfg, remote, stdin, pc, list, token, matched, idx, out, errOut,
                 requests, printed, asked, result, mc, nodes>>

\* main: if err := root.Execute(); err != nil { os.Exit(1) }
ExitCommand ==
  /\ cli.stage \in {"failed", "returned"}
  /\ cli' = [cli EXCEPT !.stage = "exit",
                        !.code = IF cli.stage = "failed" THEN 1 ELSE 0]
  /\ UNCHANGED <<cfg, remote, stdin, pc, list, token, matched, idx, out, errOut,
                 requests, printed, asked, result, mc, nodes>>

NextCommand ==
  \/ CompleteCommand
  \/ ValidateCommand
  \/ RunCommand
  \/ ReturnCommand
  \/ ExitCommand
  \/ ListPods
  \/ getResources
  \/ MatchItems
  \/ PrintMatched
  \/ BeginAction
  \/ Preview
  \/ Confirm
  \/ DeleteItem
  \/ PatchItem
  \/ ExecItem
  \/ ReturnNil

SpecCommand == InitCommand /\ [][NextCommand]_vars

(***************************************************************************)
(* The matchers over bounded candidates and options: each matcher is       *)
(* applied to one candidate under one ActionOptions.                       *)
(***************************************************************************)
Ticks == (0 - 1)..MaxAgeTicks

RestartSeqs == UNION {[1..k -> 0..MaxRestartCount] : k \in 0..MaxContainers}

\* what gojq's iterator hands out: booleans, nil, another value, an error
JQValues == {"true", "false", "null", "value", "error"}

EmitSamples == UNION {[1..k -> JQValues] : k \in 0..MaxEmitted}

NodePatterns == {NoRegex, Regex({"n1"}), Regex({"", "n1", "n2"})}

NamePatterns == {NoRegex, Regex({"a"})}

BenchOpts(re, min, max, status, nodeRe, restarted, jq) ==
  [NoFilter("default", ActionList) EXCEPT
     !.NameRegex = re, !.MinAge = min, !.MaxAge = max, !.PodStatus = status,
     !.NodeNameRegex = nodeRe, !.Restarted = restarted, !.JQQuery = jq]

\* every candidate, no predicate
IdentityFamily ==
  {[doc |-> Doc(n, "default", age, ph, node, nom, rs, em),
    opts |-> NoFilter("default", ActionList)] :
     n \in Names, age \in Ticks, ph \in {"Running", "Pending"},
     node \in {"", "n1"}, nom \in {"", "n2"}, rs \in RestartSeqs,
     em \in {<<>>, <<"error">>}}

\* the age window, next to the name predicate
AgeFamily ==
  {[doc |-> Doc(n, "default", age, "Running", "n1", "", <<>>, <<>>),
    opts |-> BenchOpts(re, min, max, "", NoRegex, FALSE, NoQuery)] :
     n \in Names, age \in Ticks, re \in NamePatterns, min \in Ticks, max \in Ticks}

\* the node predicate, next to the name and status predicates
NodeFamily ==
  {[doc |-> Doc(n, "default", 1, "Running", node, nom, <<>>, <<>>),
    opts |-> BenchOpts(re, 0, 0, st, nodeRe, FALSE, NoQuery)] :
     n \in Names, node \in {""} \cup NodeNames, nom \in {""} \cup NodeNames,
     re \in NamePatterns, st \in {"", "Pending"}, nodeRe \in NodePatterns}

\* the restarted flag, next to the name and status predicates
RestartFamily ==
  {[doc |-> Doc(n, "default", 1, ph, "n1", "", rs, <<>>),
    opts |-> BenchOpts(re, 0, 0, st, NoRegex, restarted, NoQuery)] :
     n \in Names, ph \in {"Running", "Pending"}, rs \in RestartSeqs,
     re \in NamePatterns, st \in {"", "Running"}, restarted \in BOOLEAN}

\* the image pattern, next to the name predicate
ImageSamples == {<<>>, <<"nginx">>, <<"bitnami/nginx">>, <<"nginx", "bitnami/shell">>}

ImagePatterns == {NoRegex, Regex({"bitnami/nginx", "bitnami/shell"})}

ImageFamily ==
  {[doc |-> WithImages(Doc(n, "default", 1, "Running", "n1", "", <<>>, <<>>),
                       init, main),
    opts |-> [BenchOpts(re, 0, 0, "", NoRegex, FALSE, NoQuery)
                EXCEPT !.ImageRegex = imgRe]] :
     n \in Names, init \in ImageSamples, main \in ImageSamples,
     re \in NamePatterns, imgRe \in ImagePatterns}

\* the jq query, next to the name predicate
QueryFamily ==
  {[doc |-> Doc(n, "default", 1, "Running", "n1", "", <<>>, em),
    opts |-> BenchOpts(re, 0, 0, "", NoRegex, FALSE, jq)] :
     n \in Names, em \in EmitSamples, re \in NamePatterns,
     jq \in {NoQuery, TheQuery}}

BenchInputs ==
  IdentityFamily \cup AgeFamily \cup NodeFamily \cup RestartFamily \cup QueryFamily
    \cup ImageFamily

InitMatch ==
  /\ cfg = [handler |-> "pod", resource |-> PodType,
            opts |-> NoFilter("default", ActionList), cluster |-> <<>>]
  /\ remote = <<>>
  /\ stdin = <<>>
  /\ pc = "bench"
  /\ list = <<>>
  /\ token = 0
  /\ matched = <<>>
  /\ idx = 1
  /\ out = <<>>
  /\ errOut = <<>>
  /\ requests = <<>>
  /\ printed = <<>>
  /\ asked = NotAsked
  /\ result = NoResult
  /\ cli = NoCommand
  /\ nodes = NoNodeColumns
  /\ \E b \in BenchInputs :
       mc = [stage |-> "input", doc |-> b.doc, opts |-> b.opts, verdict |-> FALSE,
             err |-> FALSE]

\* the PodHandler's matcher on the candidate
MatchPod ==
  /\ pc = "bench"
  /\ mc.stage = "input"
  /\ mc' = [mc EXCEPT !.stage = "pod",
                      !.verdict = getMatcher(mc.opts, ToPod(mc.doc))]
  /\ UNCHANGED <<cli, nodes, cfg, remote, stdin, pc, list, token, matched,
                 idx, out, errOut, requests, printed, asked, result>>

\* the UniversalHandler's matcher on the candidate
MatchResource ==
  /\ pc = "bench"
  /\ mc.stage = "input"
  /\ mc' = [mc EXCEPT !.stage = "universal",
                      !.verdict = resourceMatches(mc.doc, mc.opts)]
  /\ UNCHANGED <<cli, nodes, cfg, remote, stdin, pc, list, token, matched,
                 idx, out, errOut, requests, printed, asked, result>>

\* MatchesWithGoJQ on the candidate, under the run's compiled query
MatchQuery ==
  /\ pc = "bench"
  /\ mc.stage = "input"
  /\ mc.opts.JQQuery.set
  /\ LET r == MatchesWithGoJQ(Run(mc.opts.JQQuery, mc.doc))
     IN mc' = [mc EXCEPT !.stage = "jq", !.verdict = r.matches, !.err = r.err]
  /\ UNCHANGED <<cli, nodes, cfg, remote, stdin, pc, list, token, matched,
                 idx, out, errOut, requests, printed, asked, result>>

NextMatch ==
  \/ MatchPod
  \/ MatchResource
  \/ MatchQuery

SpecMatch == InitMatch /\ [][NextMatch]_vars

(***************************************************************************)
(* Vocabulary of the properties.                                           *)
(***************************************************************************)
IsMutation(r) == r.op \in {"delete", "patch"}

\* the requests of the per-item loop, in order
LoopRequests == SelectSeq(requests, LAMBDA r : r.op # "list")

\* how many delete or patch requests address the object (name, ns)
MutationCount(name, ns) ==
  Cardinality({i \in DOMAIN requests :
                 IsMutation(requests[i]) /\ requests[i].name = name
                                         /\ requests[i].ns = ns})

\* the stored objects the run is about: in the namespace scope of the run
\* and passing the name pattern (the one predicate the handler runs vary)
Survives(d) ==
  /\ \/ ~cfg.resource.IsNamespaced
     \/ cfg.opts.Namespace = ""
     \/ GetNamespace(d) = cfg.opts.Namespace
  /\ cfg.opts.NameRegex.set => GetName(d) \in cfg.opts.NameRegex.lang

ExpectedSurvivors == SelectSeq(cfg.cluster, Survives)

MutatingAction == cfg.opts.Action \in {ActionDelete, ActionPatch}

\* C1: Delete and Patch, either handler: once a confirmation was asked for
\* and the answer read is a declining one ("n" or an empty line), no delete
\* or patch request has been or is ever sent, the cluster is as it was,
\* HandleAction has returned nil, nothing is on standard output and the last
\* line on standard error is the cancellation notice of the action.
C1_DeclineCancels ==
  (MutatingAction /\ asked.done /\ asked.in \in {<<"n", "\n">>, <<"\n">>}) =>
    /\ pc = "done"
    /\ result = Nil
    /\ \A i \in DOMAIN requests : requests[i].op = "list"
    /\ remote = cfg.cluster
    /\ out = <<>>
    /\ errOut # <<>>
    /\ errOut[Len(errOut)] =
         <<IF cfg.opts.Action = ActionDelete THEN "Deletion cancelled."
                                             ELSE "Patch cancelled.">>

C1_Witness ==
  /\ ~IsPod
  /\ cfg.opts.Action = ActionPatch
  /\ asked.done
  /\ asked.in = <<"\n">>
  /\ Len(matched) = 2
  /\ errOut[Len(errOut)] = <<"Patch cancelled.">>

\* C2: Delete and Patch with the confirmation accepted and no failure
\* (HandleAction returned nil): every stored object that survives the
\* filters was sent exactly one request of the action, addressed to it, and
\* is deleted (patched once); every other stored object was sent none and is
\* stored unchanged.
C2_MatchedMutatedOnce ==
  (MutatingAction /\ asked.done /\ asked.answer /\ pc = "done" /\ result = Nil) =>
    /\ \A i \in DOMAIN cfg.cluster :
         LET d    == cfg.cluster[i]
             hit  == Survives(d)
             now  == Target(remote, GetName(d), GetNamespace(d))
         IN
         /\ MutationCount(GetName(d), GetNamespace(d)) = IF hit THEN 1 ELSE 0
         /\ IF hit /\ cfg.opts.Action = ActionDelete
              THEN now = {}
              ELSE /\ Cardinality(now) = 1
                   /\ \A k \in now :
                        remote[k].metadata.generation = IF hit THEN 1 ELSE 0
    /\ \A i \in DOMAIN requests :
         requests[i].op \in {"list", ActionWords.op}
    /\ Len(LoopRequests) = Len(ExpectedSurvivors)

C2_Witness ==
  /\ cfg.opts.Action = ActionPatch
  /\ asked.done
  /\ asked.answer
  /\ pc = "done"
  /\ result = Nil
  /\ Len(matched) = 2
  /\ Len(cfg.cluster) = 3

\* C3: fail-fast.  A failed request of the per-item loop is the last request
\* of the run: HandleAction has returned an error that names the item of the
\* request and wraps its cause; the requests before it are the successful
\* requests for the matched items before that item, one each and in order,
\* each reported on standard output; no request follows, for a later item or
\* for the same one.
C3_FailFast ==
  \A i \in DOMAIN LoopRequests :
    LoopRequests[i].res # "ok" =>
      /\ i = Len(LoopRequests)
      /\ pc = "done"
      /\ result.kind = "err"
      /\ result.item = LoopRequests[i].name
      /\ result.wraps = LoopRequests[i].res
      /\ i <= Len(matched)
      /\ LoopRequests[i].name = ItemName(matched[i])
      /\ Len(out) = i - 1
      /\ \A j \in 1..(i - 1) :
           /\ LoopRequests[j].res = "ok"
           /\ LoopRequests[j].name = ItemName(matched[j])
           /\ out[j][3] = ItemName(matched[j])

C3_Witness ==
  /\ Len(matched) = 3
  /\ Len(LoopRequests) = 2
  /\ LoopRequests[2].res = "fail"
  /\ cfg.opts.Action = ActionDelete
  /\ pc = "done"

\* C4: every delete or patch request addresses a matched candidate by that
\* candidate's own name and own namespace.
C4_OwnNameAndNamespace ==
  \A i \in DOMAIN LoopRequests :
    IsMutation(LoopRequests[i]) =>
      /\ i <= Len(matched)
      /\ LoopRequests[i].name = ItemName(matched[i])
      /\ LoopRequests[i].ns = ItemNamespace(matched[i])

\* C5: the List action.  The printer is called only once HandleAction is
\* over, at most once; after a successful fetch it has been called exactly
\* once, with exactly the surviving candidates in fetch order, when there is
\* a survivor, and not at all when there is none, and then the result is nil.
C5_ListPrintsSurvivors ==
  cfg.opts.Action = ActionList =>
    /\ printed # <<>> => pc = "done"
    /\ (pc = "done" /\ \A i \in DOMAIN requests : requests[i].res = "ok") =>
         IF ExpectedSurvivors = <<>>
           THEN printed = <<>> /\ result = Nil
           ELSE printed = <<ExpectedSurvivors>>

C5_Witness ==
  /\ cfg.opts.Action = ActionList
  /\ pc = "done"
  /\ Len(printed) = 1
  /\ Len(printed[1]) = 2
  /\ Len(cfg.cluster) = 3

\* the content of standard input one read of a line delivers: up to and
\* including the first newline, or everything when there is none
DataRead(in) ==
  LET ends == {k \in DOMAIN in : in[k] = "\n"} IN
  IF ends = {} THEN in
  ELSE SubSeq(in, 1, CHOOSE k \in ends : \A m \in ends : k <= m)

YesWords ==
  {<<y>> : y \in {"y", "Y"}}
    \cup {<<y, e, z>> : y \in {"y", "Y"}, e \in {"e", "E"}, z \in {"s", "S"}}

\* the text is y or yes in any letter case, between white space
SaysYes(text) ==
  \E i \in 0..Len(text), j \in 0..Len(text) :
    /\ i <= j
    /\ \A k \in 1..i : IsSpace(text[k])
    /\ \A k \in (j + 1)..Len(text) : IsSpace(text[k])
    /\ SubSeq(text, i + 1, j) \in YesWords

\* the action was cancelled: nil returned, no request of the loop sent
Cancelled ==
  /\ pc = "done"
  /\ result = Nil
  /\ LoopRequests = <<>>
  /\ remote = cfg.cluster

\* C6, as stated: the answer is true iff the line read is y or yes after
\* trimming and lower-casing, and every read that fails (the input ends
\* before a newline) answers false and cancels the action.
C6_ReadFailureCancels ==
  asked.done =>
    /\ asked.answer <=> SaysYes(DataRead(asked.in))
    /\ asked.err => (~asked.answer /\ Cancelled)

\* C6, amended: the answer is true iff the data the read delivered (up to
\* the first newline, or up to the end of the input when the read fails
\* before one) is y or yes after trimming and lower-casing; a false answer
\* cancels the action, a true one does not; a read that delivers nothing
\* answers false.
C6_AnswerFromDataRead ==
  asked.done =>
    /\ asked.answer <=> SaysYes(DataRead(asked.in))
    /\ asked.answer <=> ~Cancelled
    /\ asked.in = <<>> => (asked.err /\ ~asked.answer)

C6_Witness ==
  /\ asked.done
  /\ asked.err
  /\ asked.answer
  /\ asked.in = <<"Y", "e", "s">>
  /\ Len(LoopRequests) = 1

(***************************************************************************)
(* Properties of the matchers.                                             *)
(***************************************************************************)
Judged == mc.stage \in {"pod", "universal"}

NamePasses == mc.opts.NameRegex.set => mc.doc.metadata.name \in mc.opts.NameRegex.lang

StatusPasses ==
  (mc.stage = "pod" /\ mc.opts.PodStatus # "") => mc.doc.status.phase = mc.opts.PodStatus

QueryAbsent == mc.stage = "universal" => ~mc.opts.JQQuery.set

NoAgeBound == mc.opts.MinAge = 0 /\ mc.opts.MaxAge = 0

AllAbsent ==
  /\ ~mc.opts.NameRegex.set
  /\ NoAgeBound
  /\ mc.opts.PodStatus = ""
  /\ ~mc.opts.NodeNameRegex.set
  /\ ~mc.opts.ImageRegex.set
  /\ ~mc.opts.Restarted
  /\ ~mc.opts.JQQuery.set

\* C7: with every optional predicate absent, the matcher of each handler
\* accepts the candidate, whatever the candidate is.
C7_IdentityFilter == (Judged /\ AllAbsent) => mc.verdict

C7_Witness ==
  /\ mc.stage = "universal"
  /\ AllAbsent
  /\ mc.verdict
  /\ mc.doc.metadata.age = MaxAgeTicks
  /\ mc.doc.emits = <<"error">>
  /\ mc.doc.status.restartCounts = <<>>

NodePredicate ==
  LET node == mc.doc.spec.nodeName
      nominated == mc.doc.status.nominatedNodeName
  IN
  IF node # "" THEN node \in mc.opts.NodeNameRegex.lang
  ELSE nominated # "" /\ nominated \in mc.opts.NodeNameRegex.lang

\* C9: under a node-name pattern (and no age bound), the PodHandler's
\* matcher accepts a pod iff the other active predicates pass and the pattern
\* matches the pod's scheduled node or, when it has none, its nominated node;
\* a pod with neither is rejected, even by a pattern that matches the empty
\* string.
C9_NodePredicate ==
  (mc.stage = "pod" /\ mc.opts.NodeNameRegex.set /\ NoAgeBound) =>
    /\ mc.verdict <=> (NamePasses /\ StatusPasses /\ NodePredicate)
    /\ (mc.doc.spec.nodeName = "" /\ mc.doc.status.nominatedNodeName = "")
         => ~mc.verdict

C9_Witness ==
  /\ mc.stage = "pod"
  /\ mc.opts.NodeNameRegex = Regex({"n1"})
  /\ mc.doc.spec.nodeName = ""
  /\ mc.doc.status.nominatedNodeName = "n1"
  /\ mc.verdict

\* C10: with the restarted filter active, the PodHandler's matcher rejects a
\* pod whose container restart counts sum to zero.
C10_RestartedFilter ==
  (mc.stage = "pod" /\ mc.opts.Restarted
     /\ SumSeq(mc.doc.status.restartCounts) = 0) => ~mc.verdict

\* no predicate but the name and the age bounds is active
OnlyAgeBounds ==
  /\ mc.opts.PodStatus = ""
  /\ ~mc.opts.NodeNameRegex.set
  /\ ~mc.opts.ImageRegex.set
  /\ ~mc.opts.Restarted
  /\ ~mc.opts.JQQuery.set

\* C28: on the age bounds, zero, positive or negative, the two matchers
\* agree: the verdict one handler's matcher has given on a candidate is the
\* verdict the other handler's matcher gives on the same candidate under the
\* same options.
C28_SameAgeVerdict ==
  OnlyAgeBounds =>
    /\ mc.stage = "pod" => mc.verdict = resourceMatches(mc.doc, mc.opts)
    /\ mc.stage = "universal" => mc.verdict = getMatcher(mc.opts, ToPod(mc.doc))

\* the images of a pod's containers, init containers included
PodImages == mc.doc.spec.initContainers \o mc.doc.spec.containers

\* C11: with an image pattern active (and the name passing), the PodHandler's
\* matcher accepts a pod iff the pattern matches the image of at least one of
\* its init or main containers; a pod with no container image is rejected.
C11_ImageFilter ==
  (mc.stage = "pod" /\ mc.opts.ImageRegex.set /\ NamePasses) =>
    /\ mc.verdict <=>
         \E i \in 1..Len(PodImages) : MatchString(mc.opts.ImageRegex, PodImages[i])
    /\ PodImages = <<>> => ~mc.verdict

\* the values the prepared query emitted for the candidate
Emitted == Run(mc.opts.JQQuery, mc.doc)

\* a value that is neither false nor null (nor an evaluation error)
Truthy(v) == v \notin {"false", "null", "error"}

\* the user's expression produced a truthy value before any evaluation error
ExpressionTruthy ==
  \E i \in 1..Len(mc.doc.emits) :
     /\ Truthy(mc.doc.emits[i])
     /\ \A j \in 1..(i - 1) : mc.doc.emits[j] # "error"

QueryRaises(d) ==
  \E i \in DOMAIN d.emits :
     /\ d.emits[i] = "error"
     /\ \A j \in 1..(i - 1) : d.emits[j] \in {"false", "null"}

\* the user's expression produces a value that is neither false nor null
\* before any evaluation error
QueryAccepts(d) ==
  \E i \in DOMAIN d.emits :
     /\ d.emits[i] \notin {"false", "null", "error"}
     /\ \A j \in 1..(i - 1) : d.emits[j] # "error"

\* the candidate list was fetched in full and filtered
Filtered == pc \notin {"list", "match"} /\ result.msg # "failed to list"

\* C13: in a run of the UniversalHandler under a jq query, a candidate whose
\* evaluation raises an error is not in the matched set; the matched set is
\* made of every other candidate the query matches, in order, those listed
\* after the failing one included; HandleAction returns an error only for a
\* failed request or a failed printer, never for the evaluation error; and a
\* run that returned nil has deleted or patched every matched candidate.
C13_EvaluationErrorSwallowed ==
  Filtered =>
    /\ list = cfg.cluster
    /\ matched = SelectSeq(list, QueryAccepts)
    /\ \A i \in DOMAIN list :
         QueryRaises(list[i]) => \A j \in DOMAIN matched : matched[j] # list[i]
    /\ result.kind = "err" =>
         \/ result.msg = "print objects"
         \/ /\ LoopRequests # <<>>
            /\ LoopRequests[Len(LoopRequests)].res # "ok"
    /\ result.kind \in {"none", "nil", "err"}
    /\ (pc = "done" /\ result = Nil /\ MutatingAction) =>
         /\ Len(LoopRequests) = Len(matched)
         /\ \A j \in DOMAIN matched :
              /\ LoopRequests[j].name = GetName(matched[j])
              /\ LoopRequests[j].res = "ok"

C13_Witness ==
  /\ Len(list) = 3
  /\ QueryAccepts(list[1])
  /\ QueryRaises(list[2])
  /\ ~QueryAccepts(list[2])
  /\ QueryAccepts(list[3])
  /\ cfg.opts.Action = ActionDelete
  /\ pc = "done"
  /\ result = Nil
  /\ Len(matched) = 2
  /\ Len(LoopRequests) = 2
  /\ LoopRequests[2].name = GetName(list[3])

(***************************************************************************)
(* Properties of the rejected actions.                                     *)
(***************************************************************************)
ListFailed == \E i \in DOMAIN requests : requests[i].op = "list" /\ requests[i].res # "ok"

NoStream == \A i \in DOMAIN requests : requests[i].op # "exec"

NoMutation == \A i \in DOMAIN requests : ~IsMutation(requests[i])

EmptyExec == IsPod /\ cfg.opts.Action = ActionExec /\ cfg.opts.Exec = ""

ExecRequired == Errorf("exec command is required for exec action", "", "")

\* C17 as stated: a PodHandler run of the exec action with an empty command
\* returns the error 'exec command is required' and opens no exec stream,
\* whatever the fetched and matched pods are.
C17_EmptyExecAlwaysRejected ==
  (EmptyExec /\ pc = "done" /\ ~ListFailed) => (result = ExecRequired /\ NoStream)

\* C17, amended: such a run opens no exec stream, asks no confirmation and
\* writes nothing; it returns the error 'exec command is required' when the
\* fetch succeeded and at least one pod matched, nil when the fetch succeeded
\* and no pod matched, and the fetch error when the fetch failed.
C17_EmptyExecRejected ==
  EmptyExec =>
    /\ NoStream
    /\ asked = NotAsked
    /\ out = <<>> /\ errOut = <<>>
    /\ pc = "done" =>
         result = IF ListFailed THEN Errorf("failed to list pods", "pods", "fail")
                  ELSE IF matched = <<>> THEN Nil
                  ELSE ExecRequired

C17_Witness ==
  /\ EmptyExec
  /\ pc = "done"
  /\ Len(matched) = 2
  /\ result = ExecRequired
  /\ Len(requests) = 1

UnsupportedAction ==
  ~IsPod /\ cfg.opts.Action \notin {ActionList, ActionDelete, ActionPatch}

\* C18 as stated: a UniversalHandler run of an action other than List,
\* Delete and Patch returns an unsupported-action error and performs no
\* mutation, whatever candidates the fetch returns.
C18_UnsupportedAlwaysRejected ==
  (UnsupportedAction /\ pc = "done" /\ ~ListFailed) =>
    (result = Errorf("unsupported action", "", "") /\ NoMutation)

\* C18, amended: such a run performs no mutation and leaves the cluster as
\* it was; it returns the unsupported-action error when the fetch succeeded
\* and at least one candidate matched, nil when the fetch succeeded and no
\* candidate matched, and the fetch error when the fetch failed.
C18_UnsupportedRejected ==
  UnsupportedAction =>
    /\ NoMutation
    /\ NoStream
    /\ remote = cfg.cluster
    /\ asked = NotAsked
    /\ out = <<>> /\ errOut = <<>> /\ printed = <<>>
    /\ pc = "done" =>
         result = IF ListFailed
                    THEN Errorf("failed to list", cfg.resource.PluralName, "fail")
                  ELSE IF matched = <<>> THEN Nil
                  ELSE Errorf("unsupported action", "", "")

C18_Witness ==
  /\ UnsupportedAction
  /\ cfg.opts.Action = ActionExec
  /\ pc = "done"
  /\ Len(matched) = 2
  /\ result = Errorf("unsupported action", "", "")
  /\ Len(requests) = 2

\* C29: whatever the Action value and the fetched candidates, a run of
\* HandleAction that has ended has returned nil or an error; it has not
\* panicked.
C29_NeverPanics ==
  /\ result.kind # "panic"
  /\ pc = "done" => result.kind \in {"nil", "err"}

\* a Delete, Patch or Exec action with its patch document or command
CarriesPayload ==
  \/ cfg.opts.Action = ActionDelete
  \/ cfg.opts.Action = ActionPatch /\ cfg.opts.Patch # ""
  \/ cfg.opts.Action = ActionExec /\ cfg.opts.Exec # ""

\* the fetch is over and none of the fetched candidates passes the filters
NoSurvivor ==
  /\ pc # "list"
  /\ ~ListFailed
  /\ SelectSeq(list, Matches) = <<>>

\* C30: when the fetch has ended and no fetched candidate passes the filters,
\* a Delete, Patch or Exec run with a non-empty payload has written nothing
\* to standard output or standard error, has asked nothing and read nothing
\* from standard input, has sent no request but the list requests, has left
\* the cluster as it was, and ends by returning nil.
C30_NothingToDo ==
  /\ []((CarriesPayload /\ NoSurvivor) =>
          /\ out = <<>>
          /\ errOut = <<>>
          /\ printed = <<>>
          /\ asked = NotAsked
          /\ LoopRequests = <<>>
          /\ remote = cfg.cluster
          /\ pc \in {"match", "done"}
          /\ pc = "done" => result = Nil)
  /\ [][(CarriesPayload /\ NoSurvivor) => stdin' = stdin]_vars

C30_Witness ==
  /\ IsPod
  /\ cfg.opts.Action = ActionExec
  /\ cfg.opts.Exec # ""
  /\ ~cfg.opts.SkipConfirm
  /\ Len(list) = 2
  /\ NoSurvivor
  /\ pc = "done"
  /\ result = Nil
  /\ Len(requests) = 1
  /\ errOut = <<>>

\* the delete and patch requests the server carried out, in order
Mutations == SelectSeq(requests, LAMBDA r : IsMutation(r) /\ r.res = "ok")

\* C19: standard output holds one line per successful delete or patch, in
\* mutation order, and nothing else; the line of a namespaced kind names the
\* verb, the kind, the name and the namespace of the item, the line of a
\* non-namespaced kind names the verb, the kind and the name.
C19_SuccessLines ==
  MutatingAction =>
    /\ Len(out) = Len(Mutations)
    /\ \A j \in DOMAIN out :
         LET verb == IF Mutations[j].op = "delete" THEN "Deleted" ELSE "Patched"
             kind == cfg.resource.SingularName
             name == ItemName(matched[j])
         IN
         /\ Mutations[j].name = name
         /\ out[j] = IF cfg.resource.IsNamespaced
                       THEN <<verb, kind, name, "in namespace",
                              ItemNamespace(matched[j])>>
                     ELSE <<verb, kind, name>>

(***************************************************************************)
(* Properties of the command.                                              *)
(***************************************************************************)
\* the kind the command line names resolves, and not to pods
ResolvedNotPods ==
  /\ ~findResource(cli.flags.searchType).err
  /\ findResource(cli.flags.searchType).res # PodType

\* RunE is past Validate, or ended before it
PastValidate == cli.stage \notin {"none", "complete", "validate"}

\* HandleAction was never invoked: no request of any kind was issued
NeverHandled ==
  /\ pc = "cmd"
  /\ requests = <<>>
  /\ result = NoResult
  /\ cli.stage \in {"failed", "exit"}

PodOnlyRequested ==
  \/ cli.flags.exec # ""
  \/ cli.flags.podStatus # ""
  \/ cli.flags.nodeNameRegex # ""
  \/ cli.flags.imageRegex # ""
  \/ cli.flags.showNodeLabels.given

\* C14: when the kind resolves to another kind than pods and the exec action,
\* the status filter, the node-name filter, the image filter or node-label
\* columns are requested, the command fails with a configuration error, Run
\* is never reached and the command exits with a non-zero code.
C14_PodOnlyRejected ==
  (PastValidate /\ ResolvedNotPods /\ PodOnlyRequested) =>
    /\ cli.err # ""
    /\ NeverHandled
    /\ cli.stage = "exit" => cli.code = 1

C14_Witness ==
  /\ cli.stage = "exit"
  /\ cli.flags.searchType = "configmaps"
  /\ cli.flags.imageRegex = "nginx"
  /\ cli.err = "image filtering is only supported for pods"
  /\ cli.code = 1
  /\ requests = <<>>

\* C15: when the restarted filter is requested and the kind resolves to
\* another kind than pods, the command fails with a configuration error and
\* never reaches the fetch.
C15_RestartedRejected ==
  (PastValidate /\ ResolvedNotPods /\ cli.flags.restarted) =>
    /\ cli.err # ""
    /\ NeverHandled

\* C16: once Validate has failed, HandleAction is never invoked: no list,
\* delete, patch or exec request is issued, and the command ends with a
\* non-zero exit code.
C16_ValidateFailureStops ==
  (PastValidate /\ ValidateError(cli.flags) # ""
     /\ Complete(cli.flags, TRUE).err = "") =>
    /\ NeverHandled
    /\ cli.err # ""
    /\ cli.stage = "exit" => cli.code = 1

C16_Witness ==
  /\ cli.stage = "exit"
  /\ cli.flags.jqFilter = "("
  /\ cli.flags.delete
  /\ cli.flags.skipConfirm
  /\ cli.err = "invalid jq filter"
  /\ cli.code = 1
  /\ requests = <<>>
  /\ remote = cfg.cluster

(***************************************************************************)
(* Properties of the node cache.                                           *)
(***************************************************************************)
\* how many times the node object of the name was asked of the API
NodeReads(name) ==
  Cardinality({i \in DOMAIN nodes.reads : nodes.reads[i].node = name})

\* C20: while a table is printed, the node object of each node name is read
\* from the API at most once, however many pods are on the node and however
\* many node-label columns the table has.
C20_NodeReadOnce ==
  nodes.stage = "print" => \A name \in NodeNames : NodeReads(name) <= 1

\* the cell the step has rendered, and the node reads it has made
RenderedCell == nodes'.cells[Len(nodes'.cells)]

StepReads == SubSeq(nodes'.reads, Len(nodes.reads) + 1, Len(nodes'.reads))

\* C27: the cell of a node-label column reads "<unknown>" when the pod has
\* no spec.nodeName (and then no node is read) or when the read of the node
\* object fails; either way the step only adds the cell, the run carries no
\* error, and the rendering goes on with the next column or row until every
\* row has a cell in every column.
C27_UnknownCell ==
  /\ [][(nodes.stage = "print" /\ nodes' # nodes) =>
          LET nodeName == nodes.rows[nodes.row] IN
          /\ nodes'.cells = Append(nodes.cells, RenderedCell)
          /\ Len(StepReads) <= 1
          /\ nodeName = "" => (RenderedCell = "<unknown>" /\ StepReads = <<>>)
          /\ (StepReads # <<>> /\ StepReads[1].res # "ok") =>
               RenderedCell = "<unknown>"
          /\ nodes'.rows = nodes.rows
          /\ Len(nodes'.columns) = Len(nodes.columns)
          /\ result' = NoResult]_vars
  /\ [](nodes.stage = "print" =>
          /\ result = NoResult
          /\ Len(nodes.cells) =
               (nodes.row - 1) * Len(nodes.columns) + (nodes.col - 1)
          /\ nodes.row <= Len(nodes.rows) + 1
          /\ nodes.col <= Len(nodes.columns))

C27_Witness ==
  /\ nodes.stage = "print"
  /\ Len(nodes.columns) = 2
  /\ nodes.rows = <<"n1", "", "n1">>
  /\ nodes.row = 4
  /\ Len(nodes.reads) >= 2
  /\ nodes.reads[1].res = "fail"
  /\ nodes.cells[1] = "<unknown>"
  /\ nodes.cells[3] = "<unknown>"
  /\ nodes.cells[5] # "<unknown>"
  /\ Len(nodes.cells) = 6

(***************************************************************************)
(* Properties of the order of the steps of HandleAction.                   *)
(***************************************************************************)
\* C22: a step that issues a delete or patch request issues exactly one,
\* with its response; every request before it has returned successfully
\* and its success line is written; the request is for the next item of the
\* matched set, which is the fetched candidates that pass the filter, in
\* fetch order; and when it succeeds its success line is written before
\* anything else happens.
C22_OneAtATime ==
  [][(MutatingAction /\ LoopRequests' # LoopRequests) =>
       LET k == Len(LoopRequests) + 1 IN
       /\ Len(LoopRequests') = k
       /\ SubSeq(LoopRequests', 1, k - 1) = LoopRequests
       /\ \A j \in DOMAIN LoopRequests : LoopRequests[j].res = "ok"
       /\ Len(out) = k - 1
       /\ matched = SelectSeq(list, Matches)
       /\ matched' = matched
       /\ k <= Len(matched)
       /\ IsMutation(LoopRequests'[k])
       /\ LoopRequests'[k].name = ItemName(matched[k])
       /\ LoopRequests'[k].res = "ok" => (Len(out') = k /\ out'[k][3] = ItemName(matched[k]))
       /\ LoopRequests'[k].res # "ok" => (out' = out /\ pc' = "done")]_vars

C22_Witness ==
  /\ MutatingAction
  /\ Len(matched) = 3
  /\ Len(LoopRequests) = 3
  /\ \A j \in 1..3 : LoopRequests[j].res = "ok" /\ LoopRequests[j].name = ItemName(matched[j])
  /\ Len(out) = 3
  /\ ItemName(matched[1]) # ItemName(matched[2])

\* the header and the preview lines of the matched items, in matched order
PreviewLines ==
  <<headerLine(ActionWords.header)>>
    \o [i \in DOMAIN matched |-> printResource(matched[i])]

\* C23: in a Delete, Patch or Exec run whose confirmation is not skipped,
\* until the confirmation is read standard error holds nothing or the header
\* followed by one preview line per matched item in matched order, standard
\* output is empty and no delete, patch or exec request was sent; once it is
\* read, standard error starts with the header, the preview lines and the
\* prompt, in that order; a request is sent and a line written to standard
\* output only after an accepting answer.
C23_PreviewThenPrompt ==
  (Proceeds /\ ~cfg.opts.SkipConfirm) =>
    /\ ~asked.done =>
         /\ errOut \in {<<>>, PreviewLines}
         /\ out = <<>>
         /\ LoopRequests = <<>>
         /\ errOut = <<>> => pc \in {"list", "match", "dispatch", "preview", "done"}
    /\ asked.done =>
         /\ Len(errOut) > Len(PreviewLines)
         /\ SubSeq(errOut, 1, Len(PreviewLines) + 1) = PreviewLines \o <<(<<Prompt>>)>>
    /\ (out # <<>> \/ LoopRequests # <<>>) => (asked.done /\ asked.answer)
    /\ pc = "ask" => errOut = PreviewLines

C23_Witness ==
  /\ IsPod
  /\ cfg.opts.Action = ActionExec
  /\ ~cfg.opts.SkipConfirm
  /\ asked.done
  /\ asked.answer
  /\ Len(matched) = 2
  /\ Len(LoopRequests) = 2
  /\ Len(errOut) = 4
  /\ Len(out) = 2

\* the matched items the loop requests address, in order
LoopAddresses(k) ==
  \A j \in 1..k :
    /\ LoopRequests[j].name = ItemName(matched[j])
    /\ LoopRequests[j].ns = RequestNamespace(matched[j])

\* C25: with SkipConfirm set, a Delete, Patch or Exec run writes nothing to
\* standard error, neither preview nor prompt, asks for no confirmation and
\* leaves standard input as it is; from the dispatch it goes straight to the
\* per-item loop, whose requests address the matched items one by one in
\* order, and a run that returns nil has acted on every matched item.
C25_SkipConfirm ==
  /\ []((cfg.opts.SkipConfirm /\ Proceeds) =>
          /\ errOut = <<>>
          /\ asked = NotAsked
          /\ stdin \in StdinSamples
          /\ pc \in {"list", "match", "dispatch", "loop", "done"}
          /\ Len(LoopRequests) <= Len(matched)
          /\ LoopAddresses(Len(LoopRequests))
          /\ (pc = "done" /\ result = Nil) =>
               /\ Len(LoopRequests) = Len(matched)
               /\ \A j \in DOMAIN LoopRequests : LoopRequests[j].res = "ok")
  /\ [][(cfg.opts.SkipConfirm /\ Proceeds) =>
          /\ stdin' = stdin
          /\ pc = "dispatch" => (pc' = "loop" /\ idx' = 1 /\ requests' = requests)]_vars

C25_Witness ==
  /\ cfg.opts.SkipConfirm
  /\ IsPod
  /\ cfg.opts.Action = ActionExec
  /\ Len(matched) = 3
  /\ Len(LoopRequests) = 3
  /\ pc = "done"
  /\ result = Nil
  /\ errOut = <<>>
  /\ Len(out) = 3

(***************************************************************************)
(* Properties of the choice of the handler.                                *)
(***************************************************************************)
ResourceKinds == {PodType, ConfigMapType, NamespaceType}

\* the command has a handler: Validate passed
HasHandler == cli.stage \in {"run", "handling", "returned"} \/ cfg.handler # "none"

\* C26: GetResourceHandler gives the PodHandler for core/v1 pods and the
\* UniversalHandler for every other kind; IsExecutable is true of the
\* PodHandler only; so a command that Validate let through runs the
\* PodHandler iff its kind is pods, an exec action is only ever handed to the
\* PodHandler, and exec requests are only ever sent by it.
C26_HandlerChoice ==
  /\ \A r \in ResourceKinds :
       /\ (GetResourceHandler(r) = "pod") = (r = PodType)
       /\ (GetResourceHandler(r) = "universal") = (r # PodType)
       /\ IsExecutable(GetResourceHandler(r)) = (r = PodType)
  /\ HasHandler =>
       /\ cfg.handler = GetResourceHandler(findResource(cli.flags.searchType).res)
       /\ IsPod = (cfg.resource = PodType)
       /\ cfg.opts.Action = ActionExec => (IsPod /\ IsExecutable(cfg.handler))
  /\ ~NoStream => (IsPod /\ cfg.opts.Action = ActionExec)

C26_Witness ==
  /\ cli.stage = "exit"
  /\ cli.code = 0
  /\ IsPod
  /\ cfg.opts.Action = ActionExec
  /\ ~NoStream
  /\ Len(out) = 1

(***************************************************************************)
(* Properties of the cursor loop of getResources.                          *)
(***************************************************************************)
\* the list requests of the run, in order
ListRequests == SelectSeq(requests, LAMBDA r : r.op = "list")

\* what the server holds for the run's namespace and label selector
Selection ==
  Selected(Visible(cfg.cluster, resourcesNamespace), cfg.opts.LabelSelector)

\* the pages served so far are a prefix of the selection, in its order
PagesInOrder ==
  /\ Len(list) <= Len(Selection)
  /\ list = SubSeq(Selection, 1, Len(list))

FetchInLoop ==
  /\ \A i \in DOMAIN ListRequests :
       /\ ListRequests[i].selector = cfg.opts.LabelSelector
       /\ (i = 1) = (ListRequests[i].token = 0)
       /\ i > 1 => ListRequests[i - 1].res = "ok"
  /\ PagesInOrder
  /\ (pc = "list" /\ requests # <<>>) => (token # 0 /\ token = Len(list))
  /\ (pc # "list" /\ ~ListFailed) => list = Selection
  /\ ListFailed =>
       /\ pc = "done"
       /\ result = Errorf("failed to list", cfg.resource.PluralName, "fail")
       /\ matched = <<>>
       /\ LoopRequests = <<>>
       /\ out = <<>>
       /\ printed = <<>>

\* one iteration: the request carries the token the loop holds, which is the
\* one the page before returned, and the loop is left iff the page served
\* returns the empty token
FetchStep ==
  (pc = "list" /\ requests' # requests) =>
    LET r == requests'[Len(requests')] IN
    /\ requests' = Append(requests, r)
    /\ r.op = "list"
    /\ r.token = token
    /\ r.selector = cfg.opts.LabelSelector
    /\ r.res = "ok" =>
         /\ (pc' # "list") = (token' = 0)
         /\ (token' = 0) = (Len(list') = Len(Selection))
         /\ pc' \in {"list", "match"}
    /\ r.res # "ok" => pc' = "done"

\* C24: the first list request of the generic handler carries the empty token
\* and the label selector, each later one the token the page before returned
\* and the same selector; the loop ends exactly when a page returns the empty
\* token, and then the fetched list is every selected object in page order;
\* the loop does end; a failed page ends the run with the error before
\* anything is matched, printed or acted on.
C24_CursorLoop ==
  /\ [](~IsPod => FetchInLoop)
  /\ [][~IsPod => FetchStep]_vars
  /\ <>(pc # "list")

C24_Witness ==
  /\ ~IsPod
  /\ cfg.opts.LabelSelector = FetchSelector
  /\ Len(ListRequests) = 2
  /\ ListRequests[2].token = 1
  /\ pc = "done"
  /\ result = Nil
  /\ Len(list) = 2
  /\ Len(list) < Len(cfg.cluster)
  /\ Len(LoopRequests) = 2

(***************************************************************************)
(* Properties of the label and annotation columns.                         *)
(***************************************************************************)
\* the positions of the slashes of a key
Slashes(key) == {i \in DOMAIN key : key[i] = "/"}

\* the header C21 asks for: the upper-cased part after the slash of a key
\* with exactly one slash, the upper-cased key otherwise
HeaderFor(key) ==
  IF Cardinality(Slashes(key)) = 1
    THEN LET k == CHOOSE i \in Slashes(key) : TRUE IN
         ToUpper(SubSeq(key, k + 1, Len(key)))
  ELSE ToUpper(key)

\* C21: the columns GetAnnotationColumns and GetLabelColumns build are one
\* per requested key, in the requested order, none when no key is requested;
\* each header is the one the key asks for; each rendered cell is the
\* object's value under the key, or '<none>' when the object lacks the key.
C21_KeyColumns ==
  nodes.stage = "render" =>
    /\ Len(nodes.columns) = Len(nodes.keys)
    /\ \A i \in DOMAIN nodes.columns :
         /\ nodes.columns[i].key = nodes.keys[i]
         /\ nodes.columns[i].Header = HeaderFor(nodes.keys[i])
    /\ \A i \in DOMAIN nodes.cells :
         nodes.cells[i] = IF nodes.keys[i] \in DOMAIN nodes.obj[nodes.field]
                            THEN nodes.obj[nodes.field][nodes.keys[i]]
                          ELSE NoneStr

C21_Witness ==
  /\ nodes.stage = "render"
  /\ nodes.field = "annotations"
  /\ nodes.keys = <<(<<"a", "/", "b">>), (<<"a", "/", "b", "/", "a">>)>>
  /\ nodes.columns[1].Header = <<"B">>
  /\ nodes.columns[2].Header = <<"A", "/", "B", "/", "A">>
  /\ nodes.cells = <<"v3", NoneStr>>

====
